---- MODULE Spec2Model ----
(***************************************************************************)
(* A model of the synthetic telemetry generators of                        *)
(* ai-platform-abuse-investigations:                                       *)
(*   python/generate_dataset.py          (primary generator)               *)
(*   python/generate_dns_events.py       (DNS lineage chain builder)       *)
(*   python/generate_identity_events.py  (account-takeover chain builder)  *)
(* Each script is a separate process, so each has its own specification    *)
(* over its own variables; the variables of the other scripts keep their   *)
(* idle value.  Random draws are nondeterministic choices from the range   *)
(* the call can return, except where a claim is about the seed.            *)
(***************************************************************************)
EXTENDS Integers, Sequences, FiniteSets, TLC

VARIABLES
    \* choose_weighted, applied to one mapping in two iteration orders
    cw_pc, cw_keys, cw_keys2, cw_w, cw_k, cw_res, cw_res2,
    \* build_dimension_tables: the configuration read, the org tiers, the
    \* allocation list, the accounts left to allocate and the account rows
    dm_pc, dm_org_count, dm_acct_count, dm_per_org, dm_org_sizes,
    dm_allocations, dm_remaining, dm_account_orgs,
    \* generate_dns_events.py: the position in main, the account and device
    \* of the benign loop, the configuration read and the event rows
    dn_pc, dn_acct, dn_dev, dn_threshold, dn_max_chain_len, dn_rows,
    \* generate_identity_events.py: the position in main, the tables and the
    \* configuration read, the compromised accounts still to process, the
    \* events built and (for the claims) what each chain was drawn from
    id_pc, id_n_total, id_sessions, id_enrich, id_fraction, id_failure_burst, id_comp,
    id_events, id_chains,
    \* generate_dataset.py, main: the position in main, the configuration
    \* (the required keys it lacks, the optional sections it enables, the
    \* rows asked for), the tables whose rows exist in memory, the tables
    \* written to out_dir and the llm_requests rows generated so far
    mn_pc, mn_missing, mn_enabled, mn_total_rows, mn_generated, mn_persisted,
    mn_llm_rows,
    \* generate_dataset.py, build_campaign_plan and the row loop of llm_batches:
    \* the position, campaigns[0] of the configuration, the plan built from it,
    \* account_org_map, the row appended last and the number of rows so far;
    \* rw_campaigns is the enabled flag of each entry of cfg["campaigns"]
    rw_pc, rw_c0, rw_plan, rw_account_org_map, rw_row, rw_count, rw_campaigns,
    \* generate_dataset.py, main run twice: the run in progress, the seed and
    \* the configuration both runs share, the state of random.Random(seed) and
    \* the account the session loop is at, and the tables each run wrote
    rp_run, rp_pc, rp_seed, rp_sess_enabled, rp_total_rows, rp_rng, rp_acct,
    rp_sessions, rp_requests,
    \* generate_dataset.py, pick_asn: the position, the infrastructure rows, the
    \* labels of infra.baseline_asn_type_probs, the plan, the argument and the result
    pa_pc, pa_rows, pa_baseline_types, pa_plan, pa_is_campaign, pa_res,
    \* generate_dataset.py, main and llm_batches: the position, --rows, the configured
    \* generation.total_rows, total_rows, batches, the batch index and the sizes of
    \* the batches written to llm_requests
    bt_pc, bt_rows_arg, bt_cfg_total, bt_total_rows, bt_batches, bt_b, bt_sizes,
    \* generate_dataset.py, the derived passes of main: the position, rate_limits.enabled,
    \* the rows of llm_requests, of moderation_events and of rate_limit_events, and
    \* the row of llm_requests the running pass is at
    dv_pc, dv_rl_enabled, dv_llm, dv_mod, dv_rl, dv_i,
    \* generate_dataset.py, build_dimension_tables, devices: the position, devices.count,
    \* the rates of mix and suspicious_device_traits in DrawDen-ths, the
    \* is_suspicious list and the device rows built so far
    de_pc, de_count, de_rates, de_is_suspicious, de_devices,
    \* generate_dataset.py, build_dimension_tables, enrichment_ip: the position,
    \* infra.asn_pool_sizes as its (type, count) items in order,
    \* infra.provider_brand_buckets, the item and the rows left of the running
    \* gen_asn_type_rows call, asn_base and asn_rows
    an_pc, an_pool_sizes, an_provider_brand, an_t, an_left, an_asn_base, an_rows,
    \* score_domain and the two scoring passes of generate_dns_events.py: the
    \* dns_events configuration and the rows with their flags and score
    ds_pc, ds_cfg, ds_rows,
    \* pick_ts_for_request: the length of the time range, the arguments of a
    \* call and what it returned
    pt_pc, pt_span, pt_is_campaign, pt_plan, pt_res,
    \* the created_at column of the accounts table: the dataset start and the
    \* timestamps appended so far, in minutes
    ac_pc, ac_t0, ac_created_at,
    \* the primary generator followed by the identity generator on its output
    \* directory: the sessions rows built and the columns of every file written
    cp_pc, cp_sess_enabled, cp_n_accounts, cp_acct, cp_sess_rows, cp_files, cp_missing

cwVars == <<cw_pc, cw_keys, cw_keys2, cw_w, cw_k, cw_res, cw_res2>>

dmVars == <<dm_pc, dm_org_count, dm_acct_count, dm_per_org, dm_org_sizes,
            dm_allocations, dm_remaining, dm_account_orgs>>

dnVars == <<dn_pc, dn_acct, dn_dev, dn_threshold, dn_max_chain_len, dn_rows>>

idVars == <<id_pc, id_n_total, id_sessions, id_enrich, id_fraction, id_failure_burst, id_comp,
            id_events, id_chains>>

mnVars == <<mn_pc, mn_missing, mn_enabled, mn_total_rows, mn_generated, mn_persisted,
            mn_llm_rows>>

rwVars == <<rw_pc, rw_c0, rw_plan, rw_account_org_map, rw_row, rw_count, rw_campaigns>>

rpVars == <<rp_run, rp_pc, rp_seed, rp_sess_enabled, rp_total_rows, rp_rng, rp_acct,
            rp_sessions, rp_requests>>

paVars == <<pa_pc, pa_rows, pa_baseline_types, pa_plan, pa_is_campaign, pa_res>>

btVars == <<bt_pc, bt_rows_arg, bt_cfg_total, bt_total_rows, bt_batches, bt_b, bt_sizes>>

dvVars == <<dv_pc, dv_rl_enabled, dv_llm, dv_mod, dv_rl, dv_i>>

deVars == <<de_pc, de_count, de_rates, de_is_suspicious, de_devices>>

anVars == <<an_pc, an_pool_sizes, an_provider_brand, an_t, an_left, an_asn_base, an_rows>>

dsVars == <<ds_pc, ds_cfg, ds_rows>>

ptVars == <<pt_pc, pt_span, pt_is_campaign, pt_plan, pt_res>>

acVars == <<ac_pc, ac_t0, ac_created_at>>

cpVars == <<cp_pc, cp_sess_enabled, cp_n_accounts, cp_acct, cp_sess_rows, cp_files, cp_missing>>

vars == <<cwVars, dmVars, dnVars, idVars, mnVars, rwVars, rpVars, paVars, btVars, dvVars, deVars, anVars, dsVars, ptVars, acVars, cpVars>>

(***************************************************************************)
(* Bounds of the model.                                                    *)
(***************************************************************************)
\* labels of a weight mapping
MaxLabels == 3

\* accounts the sessions loop of the primary generator visits: 0 .. MaxSessAccounts
MaxSessAccounts == 3

\* accounts whose created_at is drawn: 0 .. MaxCreated
MaxCreated == 2

\* rows of the DNS table in the scoring passes
MaxScoreRows == 2
\* a draw of rng.random() is k / DrawDen for k in 0 .. DrawDen - 1
DrawDen == 4
\* the weights a label can carry
WeightVals == {0, 1, 2}
\* organizations and accounts of a configuration
MaxOrgs == 2
MaxAccts == 3
\* the accounts_per_org ranges a configuration can give a tier: one that
\* allocates nothing, one that over-allocates, one written high-to-low and
\* one with a negative low end
RangeChoices == {<<0, 0>>, <<1, 3>>, <<2, 1>>, <<-1, 1>>}
\* rows of the DNS table
MaxDnsRows == 3
\* accounts and devices read from accounts.parquet and devices.parquet
DnsAccounts == {1, 2}
DnsDevices == {1, 2}
\* seconds after time_range_utc.start
DnsTimes == {0, 1}
\* dns_events.rare_domain_threshold and dns_events.max_chain_len, each read
\* by the pass that uses it
RareThresholds == {1, 2}
ChainLens == {1, 2}
\* rows of accounts.parquet (accounts are 1 .. n) and candidate rows of
\* sessions.parquet, with start_ts in minutes
IdAccountCounts == {0, 1, 2}
SessionChoices ==
    {[account_id |-> 1, device_fingerprint |-> 1, start_ts |-> 100],
     [account_id |-> 1, device_fingerprint |-> 2, start_ts |-> 130],
     [account_id |-> 2, device_fingerprint |-> 1, start_ts |-> 100],
     [account_id |-> 2, device_fingerprint |-> 2, start_ts |-> 115]}
\* rows of enrichment_ip.parquet: a hosting node, a residential one, a vpn
\* node, one preferred by its provider category alone, one without an ip
EnrichNodes ==
    {[node |-> 1, ip |-> "10.0.0.1", asn_type |-> "hosting", provider_category |-> "hosting"],
     [node |-> 2, ip |-> "10.0.0.2", asn_type |-> "residential", provider_category |-> "isp"],
     [node |-> 3, ip |-> "10.0.0.3", asn_type |-> "vpn", provider_category |-> "vpn"],
     [node |-> 4, ip |-> "10.0.0.4", asn_type |-> "corporate", provider_category |-> "edge"],
     [node |-> 5, ip |-> "", asn_type |-> "hosting", provider_category |-> "hosting"]}
\* the enrichment tables the model starts from, by the nodes they hold
EnrichTables ==
    {{e \in EnrichNodes : e.node \in N} :
        N \in {{}, {5}, {2}, {1, 2}, {1, 3}, {1, 2, 3, 5}, {1, 3, 4}}}
\* preferred rows that make the pool of attack origins, 50 in the code
PreferredMin == 2
\* identity_events.compromised_fraction as <<numerator, denominator>>
FractionChoices == {<<0, 1>>, <<1, 4>>, <<3, 4>>, <<2, 1>>}
\* identity_events.failure_burst as <<min_failures, max_failures>>
FailureBursts == {<<0, 1>>, <<1, 2>>, <<2, 1>>}
\* the minute offsets of rng.integers(1, 10) the model draws
FailOffsets == {1, 9}
\* rows of llm_requests a configuration asks for: 0 .. MaxTotalRows
MaxTotalRows == 2
\* rows the row loop of llm_batches appends: 0 .. MaxRows
MaxRows == 2
\* end - start of generation.time_range_utc, in minutes
SpanMinutes == 3
\* seeds of generation.seed: 0 .. MaxSeed
MaxSeed == 1
\* number of states of the model of random.Random
RngMod == 8
\* --rows and generation.total_rows: 0 .. MaxRowCount
MaxRowCount == 5
\* batch_size of main, 100_000 in the code
batch_size == 2
\* rows of llm_requests the derived passes read: 0 .. MaxPrimaryRows
MaxPrimaryRows == 2
\* entities.devices.count: 0 .. MaxDevices
MaxDevices == 2
\* the count of one entry of infra.asn_pool_sizes: 0 .. MaxTypeCount
MaxTypeCount == 1

(***************************************************************************)
(* Helpers.                                                                *)
(***************************************************************************)
Range(s) == {s[i] : i \in DOMAIN s}

Min2(a, b) == IF a <= b THEN a ELSE b

Max2(a, b) == IF a >= b THEN a ELSE b

\* the orders in which a mapping of n labels can be iterated
PermSeqs(n) == {s \in [1..n -> 1..n] : \A i, j \in 1..n : s[i] = s[j] => i = j}

(***************************************************************************)
(* generate_dataset.py: choose_weighted.                                   *)
(* A mapping is its keys in iteration order and the weight of each key.    *)
(* The draw x = rng.random() * total is k * total / DrawDen, so x <= c is  *)
(* k * total <= c * DrawDen.  A result is the label returned, or the       *)
(* IndexError that keys[0] raises on an empty list.                        *)
(***************************************************************************)
Returned(label) == [err |-> "none", label |-> label]

Raised(e) == [err |-> e, label |-> 0]

\* total = sum(vals)
RECURSIVE SumWeights(_, _, _)
SumWeights(keys, w, i) ==
    IF i > Len(keys) THEN 0 ELSE w[keys[i]] + SumWeights(keys, w, i + 1)

\* the cumulative weight c after the first i keys
CumWeight(keys, w, i) == SumWeights(SubSeq(keys, 1, i), w, 1)

\* for k, w in zip(keys, vals): c += w; if x <= c: return k   /   return keys[-1]
RECURSIVE ScanWeights(_, _, _, _, _, _)
ScanWeights(keys, w, i, c, k, total) ==
    IF i > Len(keys)
    THEN Returned(keys[Len(keys)])
    ELSE LET c2 == c + w[keys[i]]
         IN  IF k * total <= c2 * DrawDen
             THEN Returned(keys[i])
             ELSE ScanWeights(keys, w, i + 1, c2, k, total)

\* mutant: on a non-positive total the last label is returned
choose_weighted_last(keys, w, k) ==
    LET total == SumWeights(keys, w, 1)
    IN  IF total <= 0
        THEN IF Len(keys) = 0 THEN Raised("IndexError") ELSE Returned(keys[Len(keys)])
        ELSE ScanWeights(keys, w, 1, 0, k, total)

\* mutant: the labels are scanned in sorted order, not in iteration order
choose_weighted_sorted(keys, w, k) ==
    LET total == SumWeights(keys, w, 1)
        sorted == [i \in 1..Len(keys) |-> i]
    IN  IF total <= 0
        THEN IF Len(keys) = 0 THEN Raised("IndexError") ELSE Returned(keys[1])
        ELSE ScanWeights(sorted, w, 1, 0, k, total)

choose_weighted(keys, w, k) ==
    LET total == SumWeights(keys, w, 1)
    IN  IF total <= 0
        THEN IF Len(keys) = 0 THEN Raised("IndexError") ELSE Returned(keys[1])
        ELSE ScanWeights(keys, w, 1, 0, k, total)

PAIdle ==
    /\ pa_pc = "idle"
    /\ pa_rows = {}
    /\ pa_baseline_types = {}
    /\ pa_plan = [enabled |-> FALSE]
    /\ pa_is_campaign = FALSE
    /\ pa_res = [raised |-> FALSE]

BTIdle ==
    /\ bt_pc = "idle"
    /\ bt_rows_arg = [given |-> FALSE, value |-> 0]
    /\ bt_cfg_total = 0
    /\ bt_total_rows = 0
    /\ bt_batches = 0
    /\ bt_b = 0
    /\ bt_sizes = <<>>

DVIdle ==
    /\ dv_pc = "idle"
    /\ dv_rl_enabled = FALSE
    /\ dv_llm = <<>>
    /\ dv_mod = <<>>
    /\ dv_rl = <<>>
    /\ dv_i = 0

DEIdle ==
    /\ de_pc = "idle"
    /\ de_count = 0
    /\ de_rates = [suspicious |-> 0]
    /\ de_is_suspicious = <<>>
    /\ de_devices = <<>>

ANIdle ==
    /\ an_pc = "idle"
    /\ an_pool_sizes = <<>>
    /\ an_provider_brand = <<>>
    /\ an_t = 0
    /\ an_left = 0
    /\ an_asn_base = 0
    /\ an_rows = <<>>

DSIdle ==
    /\ ds_pc = "idle"
    /\ ds_cfg = [read |-> FALSE]
    /\ ds_rows = <<>>

PTIdle ==
    /\ pt_pc = "idle"
    /\ pt_span = 0
    /\ pt_is_campaign = FALSE
    /\ pt_plan = [enabled |-> FALSE]
    /\ pt_res = [branch |-> "none"]

ACIdle ==
    /\ ac_pc = "idle"
    /\ ac_t0 = 0
    /\ ac_created_at = <<>>

CPIdle ==
    /\ cp_pc = "idle"
    /\ cp_sess_enabled = FALSE
    /\ cp_n_accounts = 0
    /\ cp_acct = 0
    /\ cp_sess_rows = <<>>
    /\ cp_files = <<>>
    /\ cp_missing = {}

NoPlan == [enabled |-> FALSE]

NoRow == [request |-> "none"]

RWIdle ==
    /\ rw_pc = "idle"
    /\ rw_c0 = NoPlan
    /\ rw_plan = NoPlan
    /\ rw_account_org_map = <<>>
    /\ rw_row = NoRow
    /\ rw_count = 0
    /\ rw_campaigns = <<>>

RPIdle ==
    /\ rp_run = 0
    /\ rp_pc = "idle"
    /\ rp_seed = 0
    /\ rp_sess_enabled = FALSE
    /\ rp_total_rows = 0
    /\ rp_rng = 0
    /\ rp_acct = 0
    /\ rp_sessions = <<>>
    /\ rp_requests = <<>>

MNIdle ==
    /\ mn_pc = "idle"
    /\ mn_missing = {}
    /\ mn_enabled = {}
    /\ mn_total_rows = 0
    /\ mn_generated = {}
    /\ mn_persisted = {}
    /\ mn_llm_rows = 0

IDIdle ==
    /\ id_pc = "idle"
    /\ id_n_total = 0
    /\ id_sessions = {}
    /\ id_enrich = {}
    /\ id_fraction = <<0, 1>>
    /\ id_failure_burst = <<0, 0>>
    /\ id_comp = <<>>
    /\ id_events = <<>>
    /\ id_chains = <<>>

DNIdle ==
    /\ dn_pc = "idle"
    /\ dn_acct = 0
    /\ dn_dev = 0
    /\ dn_threshold = 0
    /\ dn_max_chain_len = 0
    /\ dn_rows = <<>>

DMIdle ==
    /\ dm_pc = "idle"
    /\ dm_org_count = 0
    /\ dm_acct_count = 0
    /\ dm_per_org = <<>>
    /\ dm_org_sizes = <<>>
    /\ dm_allocations = <<>>
    /\ dm_remaining = 0
    /\ dm_account_orgs = <<>>

CWIdle ==
    /\ cw_pc = "idle"
    /\ cw_keys = <<>>
    /\ cw_keys2 = <<>>
    /\ cw_w = <<>>
    /\ cw_k = 0
    /\ cw_res = Raised("unset")
    /\ cw_res2 = Raised("unset")

\* the inputs: a mapping of n labels, a second iteration order of it, a draw
CWInit ==
    /\ CPIdle
    /\ ACIdle
    /\ PTIdle
    /\ DSIdle
    /\ ANIdle
    /\ DEIdle
    /\ DVIdle
    /\ BTIdle
    /\ PAIdle
    /\ RWIdle
    /\ RPIdle
    /\ MNIdle
    /\ IDIdle
    /\ DMIdle
    /\ DNIdle
    /\ cw_pc = "input"
    /\ \E n \in 0..MaxLabels :
         /\ cw_keys \in PermSeqs(n)
         /\ cw_keys2 \in PermSeqs(n)
         /\ cw_w \in [1..n -> WeightVals]
    /\ cw_k \in 0..(DrawDen - 1)
    /\ cw_res = Raised("unset")
    /\ cw_res2 = Raised("unset")

CWOthers == <<dmVars, dnVars, idVars, mnVars, rwVars, rpVars, paVars, btVars, dvVars, deVars, anVars, dsVars, ptVars, acVars, cpVars>>

\* the same draw applied to the mapping in both iteration orders
CWCall ==
    /\ cw_pc = "input"
    /\ cw_res' = choose_weighted(cw_keys, cw_w, cw_k)
    /\ cw_res2' = choose_weighted(cw_keys2, cw_w, cw_k)
    /\ cw_pc' = "returned"
    /\ UNCHANGED <<cw_keys, cw_keys2, cw_w, cw_k>>
    /\ UNCHANGED CWOthers

CWNext == CWCall

SpecChooseWeighted == CWInit /\ [][CWNext]_vars

\* the position of a label in an iteration order
PosIn(keys, label) == CHOOSE i \in 1..Len(keys) : keys[i] = label

CWTotal == SumWeights(cw_keys, cw_w, 1)

\* the first label, in iteration order, whose cumulative weight reaches the draw
FirstReaching(keys, w, k) ==
    LET total == SumWeights(keys, w, 1)
        Reaches(i) == k * total <= CumWeight(keys, w, i) * DrawDen
    IN  keys[CHOOSE i \in 1..Len(keys) : Reaches(i) /\ \A j \in 1..(i - 1) : ~Reaches(j)]

CWAllZero == \A i \in 1..Len(cw_keys) : cw_w[cw_keys[i]] = 0

(* C6 (as stated): whenever all weights are zero, and whenever the mapping
   is empty, choose_weighted returns the first label without raising. *)
C6_FirstLabelAlways ==
    (cw_pc = "returned" /\ CWAllZero) =>
        /\ cw_res.err = "none"
        /\ Len(cw_keys) > 0
        /\ cw_res.label = cw_keys[1]

(* C6 (amended): on a non-empty mapping whose weights are all zero
   choose_weighted returns the first label in iteration order without
   raising; on an empty mapping it raises IndexError and returns nothing. *)
C6_FirstLabelNonEmpty ==
    (cw_pc = "returned" /\ CWAllZero) =>
        IF Len(cw_keys) = 0
        THEN cw_res = Raised("IndexError")
        ELSE cw_res = Returned(cw_keys[1]) /\ cw_res2 = Returned(cw_keys2[1])

C6_Witness ==
    /\ cw_pc = "returned"
    /\ CWAllZero
    /\ Len(cw_keys) = 2
    /\ cw_res = Returned(cw_keys[1])

(* C7 (as stated): for a fixed draw, choose_weighted returns the same label
   for the same label-to-weight pairs in two different iteration orders. *)
C7_OrderIndependent ==
    (cw_pc = "returned" /\ Len(cw_keys) > 0) => cw_res2 = cw_res

(* C7 (amended): for a fixed draw, the label choose_weighted returns depends
   on the weights and on the iteration order of the mapping: for each order
   it is the first label, in that order, whose cumulative weight reaches the
   draw (x <= c).  Two orders of the same label-to-weight pairs return the
   same label exactly when that first label is the same in both. *)
C7_FirstReachingInOrder ==
    (cw_pc = "returned" /\ CWTotal > 0) =>
        /\ cw_res = Returned(FirstReaching(cw_keys, cw_w, cw_k))
        /\ cw_res2 = Returned(FirstReaching(cw_keys2, cw_w, cw_k))

C7_Witness ==
    /\ cw_pc = "returned"
    /\ CWTotal > 0
    /\ cw_keys2 # cw_keys
    /\ cw_res.err = "none"
    /\ cw_res2.err = "none"
    /\ cw_res2 # cw_res

(* C8: when the total weight is positive, the label returned for a draw x in
   [0, total) is the one whose cumulative weight interval contains x, and so
   never a label of weight zero, x = 0 included. *)
C8_NeverZeroWeight ==
    (cw_pc = "returned" /\ CWTotal > 0) =>
        /\ cw_res.err = "none"
        /\ cw_w[cw_res.label] > 0
        /\ LET p == PosIn(cw_keys, cw_res.label)
           IN  /\ CumWeight(cw_keys, cw_w, p - 1) * DrawDen <= cw_k * CWTotal
               /\ cw_k * CWTotal <= CumWeight(cw_keys, cw_w, p) * DrawDen

(***************************************************************************)
(* generate_dataset.py: build_dimension_tables, orgs and accounts.         *)
(* Organizations are 1 .. org_count; an allocation is <<org, n>>.          *)
(***************************************************************************)
Tiers == {"small", "medium", "large"}

\* sample_int: rng.randint(lo, hi) after the swap of a range written high-to-low
sample_int(lo_hi) == Min2(lo_hi[1], lo_hi[2]) .. Max2(lo_hi[1], lo_hi[2])

\* orgs_small / orgs_med / orgs_large: the orgs of a tier, in id order
RECURSIVE OrgsOfTier(_, _, _)
OrgsOfTier(sizes, tier, i) ==
    IF i > Len(sizes) THEN <<>>
    ELSE (IF sizes[i] = tier THEN <<i>> ELSE <<>>) \o OrgsOfTier(sizes, tier, i + 1)

\* mutant: the sample is not capped by the accounts that remain
RECURSIVE allocate_accounts_uncapped(_, _, _, _, _)
allocate_accounts_uncapped(org_list, samples, i, remaining, bucket) ==
    IF i > Len(org_list) THEN [remaining |-> remaining, bucket |-> bucket]
    ELSE IF remaining <= 0 THEN [remaining |-> 0, bucket |-> bucket]
    ELSE LET n == samples[i]
         IN  allocate_accounts_uncapped(org_list, samples, i + 1, remaining - n,
                                        Append(bucket, <<org_list[i], n>>))

\* allocate_accounts: samples[i] is the value sample_int returns for org_list[i]
RECURSIVE allocate_accounts(_, _, _, _, _)
allocate_accounts(org_list, samples, i, remaining, bucket) ==
    IF i > Len(org_list) THEN [remaining |-> remaining, bucket |-> bucket]
    ELSE IF remaining <= 0 THEN [remaining |-> 0, bucket |-> bucket]
    ELSE LET n == Min2(samples[i], remaining)
         IN  allocate_accounts(org_list, samples, i + 1, remaining - n,
                               Append(bucket, <<org_list[i], n>>))

\* for (org, n) in allocations: for _ in range(n): account_orgs.append(org)
RECURSIVE AccountRows(_, _)
AccountRows(allocations, i) ==
    IF i > Len(allocations) THEN <<>>
    ELSE LET org == allocations[i][1]
             n == allocations[i][2]
         IN  [j \in 1..Max2(n, 0) |-> org] \o AccountRows(allocations, i + 1)

DMOthers == <<cwVars, dnVars, idVars, mnVars, rwVars, rpVars, paVars, btVars, dvVars, deVars, anVars, dsVars, ptVars, acVars, cpVars>>

\* the configuration: entities.orgs.count, entities.accounts.count and
\* entities.accounts.accounts_per_org
DMInit ==
    /\ CPIdle
    /\ ACIdle
    /\ PTIdle
    /\ DSIdle
    /\ ANIdle
    /\ DEIdle
    /\ DVIdle
    /\ BTIdle
    /\ PAIdle
    /\ RWIdle
    /\ RPIdle
    /\ MNIdle
    /\ IDIdle
    /\ CWIdle
    /\ DNIdle
    /\ dm_pc = "orgs"
    /\ dm_org_count \in 1..MaxOrgs
    /\ dm_acct_count \in 0..MaxAccts
    /\ dm_per_org \in [Tiers -> RangeChoices]
    /\ dm_org_sizes = <<>>
    /\ dm_allocations = <<>>
    /\ dm_remaining = 0
    /\ dm_account_orgs = <<>>

\* org_sizes = [choose_weighted(rng, size_dist) for _ in range(org_count)]
DMBuildOrgs ==
    /\ dm_pc = "orgs"
    /\ dm_org_sizes' \in [1..dm_org_count -> Tiers]
    /\ dm_remaining' = dm_acct_count
    /\ dm_pc' = "small"
    /\ UNCHANGED <<dm_org_count, dm_acct_count, dm_per_org, dm_allocations, dm_account_orgs>>
    /\ UNCHANGED DMOthers

\* remaining = allocate_accounts(orgs_<tier>, per_org[<tier>_range], remaining, allocations)
DMAllocate(at, tier, next) ==
    /\ dm_pc = at
    /\ LET org_list == OrgsOfTier(dm_org_sizes, tier, 1)
       IN  \E samples \in [1..Len(org_list) -> sample_int(dm_per_org[tier])] :
             LET r == allocate_accounts(org_list, samples, 1, dm_remaining, dm_allocations)
             IN  /\ dm_remaining' = r.remaining
                 /\ dm_allocations' = r.bucket
    /\ dm_pc' = next
    /\ UNCHANGED <<dm_org_count, dm_acct_count, dm_per_org, dm_org_sizes, dm_account_orgs>>
    /\ UNCHANGED DMOthers

\* while remaining > 0: allocations.append((rng.choice(org_ids), 1))
DMDistribute ==
    /\ dm_pc = "distribute"
    /\ \E picks \in [1..Max2(dm_remaining, 0) -> 1..dm_org_count] :
         dm_allocations' = dm_allocations \o [j \in 1..Max2(dm_remaining, 0) |-> <<picks[j], 1>>]
    /\ dm_remaining' = Min2(dm_remaining, 0)
    /\ dm_pc' = "rows"
    /\ UNCHANGED <<dm_org_count, dm_acct_count, dm_per_org, dm_org_sizes, dm_account_orgs>>
    /\ UNCHANGED DMOthers

\* the account rows, one per unit of every allocation
DMBuildAccounts ==
    /\ dm_pc = "rows"
    /\ dm_account_orgs' = AccountRows(dm_allocations, 1)
    /\ dm_pc' = "done"
    /\ UNCHANGED <<dm_org_count, dm_acct_count, dm_per_org, dm_org_sizes,
                   dm_allocations, dm_remaining>>
    /\ UNCHANGED DMOthers

DMNext ==
    \/ DMBuildOrgs
    \/ DMAllocate("small", "small", "medium")
    \/ DMAllocate("medium", "medium", "large")
    \/ DMAllocate("large", "large", "distribute")
    \/ DMDistribute
    \/ DMBuildAccounts

SpecDimensions == DMInit /\ [][DMNext]_vars

DMRangesNonNegative == \A t \in Tiers : dm_per_org[t][1] >= 0 /\ dm_per_org[t][2] >= 0

DMAccountsExact ==
    /\ Len(dm_account_orgs) = dm_acct_count
    /\ \A i \in 1..Len(dm_account_orgs) : dm_account_orgs[i] \in 1..dm_org_count

(* C2 (as stated): after build_dimension_tables the number of account rows
   equals the configured accounts count and every account row references an
   organization of the pool, for every per-tier [low, high] integer range. *)
C2_AccountsExactAnyRange ==
    dm_pc = "done" => DMAccountsExact

(* C2 (amended): after build_dimension_tables the number of account rows
   equals the configured accounts count (>= 0) and every account row
   references one organization of the pool, for every org count >= 1, every
   tier assignment and every per-tier [low, high] range of non-negative
   integers, written in either order, under- and over-allocating alike. *)
C2_AccountsExactNonNegative ==
    (dm_pc = "done" /\ DMRangesNonNegative) => DMAccountsExact

\* an over-allocating range was capped and an under-allocating one topped up
C2_Witness ==
    /\ dm_pc = "done"
    /\ DMRangesNonNegative
    /\ dm_acct_count = MaxAccts
    /\ \E i \in 1..Len(dm_allocations) : dm_allocations[i][2] = 0
    /\ \E i \in 1..Len(dm_allocations) : dm_allocations[i][2] >= 2
    /\ Len(dm_account_orgs) = dm_acct_count

(***************************************************************************)
(* generate_dns_events.py.                                                 *)
(* A row is a record of the columns the chain builder and the rarity pass  *)
(* read or write; parent is the index of the row parent_domain was copied  *)
(* from (0 when the row has none) and group_pos the 0-based position of    *)
(* the row in its time-sorted group (-1 before the edge pass); the table   *)
(* itself keeps neither.                                                   *)
(***************************************************************************)
BenignDomains == {"google.com"}

MaliciousDomains == {"secure-k3x9q2ab.xyz"}

DnsRow(ts, acct, dev, dom, mal) ==
    [ts |-> ts, account_id |-> acct, device_fingerprint |-> dev, base_domain |-> dom,
     parent_domain |-> "", parent |-> 0, group_pos |-> -1, rare_domain |-> FALSE,
     is_malicious |-> mal]

DNOthers == <<cwVars, dmVars, idVars, mnVars, rwVars, rpVars, paVars, btVars, dvVars, deVars, anVars, dsVars, ptVars, acVars, cpVars>>

DNInit ==
    /\ CPIdle
    /\ ACIdle
    /\ PTIdle
    /\ DSIdle
    /\ ANIdle
    /\ DEIdle
    /\ DVIdle
    /\ BTIdle
    /\ PAIdle
    /\ RWIdle
    /\ RPIdle
    /\ MNIdle
    /\ IDIdle
    /\ CWIdle
    /\ DMIdle
    /\ dn_pc = "benign"
    /\ dn_acct = 1
    /\ dn_dev \in DnsDevices
    /\ dn_threshold = 0
    /\ dn_max_chain_len = 0
    /\ dn_rows = <<>>

\* generate_benign_dns: one query of the current account, on its primary device
DNBenignQuery ==
    /\ dn_pc = "benign"
    /\ Len(dn_rows) < MaxDnsRows
    /\ \E ts \in DnsTimes, dom \in BenignDomains :
         dn_rows' = Append(dn_rows, DnsRow(ts, dn_acct, dn_dev, dom, FALSE))
    /\ UNCHANGED <<dn_pc, dn_acct, dn_dev, dn_threshold, dn_max_chain_len>>
    /\ UNCHANGED DNOthers

\* generate_benign_dns: the next account of accounts_df and its primary device
DNNextAccount ==
    /\ dn_pc = "benign"
    /\ IF dn_acct + 1 \in DnsAccounts
       THEN dn_acct' = dn_acct + 1 /\ dn_dev' \in DnsDevices /\ dn_pc' = dn_pc
       ELSE dn_pc' = "malicious" /\ UNCHANGED <<dn_acct, dn_dev>>
    /\ UNCHANGED <<dn_threshold, dn_max_chain_len, dn_rows>>
    /\ UNCHANGED DNOthers

\* generate_malicious_dns: one query of a random account on a random device
DNMaliciousQuery ==
    /\ dn_pc = "malicious"
    /\ Len(dn_rows) < MaxDnsRows
    /\ \E ts \in DnsTimes, a \in DnsAccounts, d \in DnsDevices, dom \in MaliciousDomains :
         dn_rows' = Append(dn_rows, DnsRow(ts, a, d, dom, TRUE))
    /\ UNCHANGED <<dn_pc, dn_acct, dn_dev, dn_threshold, dn_max_chain_len>>
    /\ UNCHANGED DNOthers

\* domain_counts = df.groupby("base_domain").size()
DomainCount(rows, d) == Cardinality({i \in 1..Len(rows) : rows[i].base_domain = d})

\* mutant: a domain seen exactly threshold times is not rare
RareDomainBelow(rows, d, threshold) == DomainCount(rows, d) < threshold

\* lambda d: domain_counts.get(d, 0) <= rare_threshold
RareDomain(rows, d, threshold) == DomainCount(rows, d) <= threshold

\* main, pass two: the rare_domain column over the combined table
DNPassTwo ==
    /\ dn_pc = "malicious"
    /\ dn_threshold' \in RareThresholds
    /\ dn_rows' = [i \in 1..Len(dn_rows) |->
                     [dn_rows[i] EXCEPT !.rare_domain =
                         RareDomain(dn_rows, dn_rows[i].base_domain, dn_threshold')]]
    /\ dn_pc' = "chains"
    /\ UNCHANGED <<dn_acct, dn_dev, dn_max_chain_len>>
    /\ UNCHANGED DNOthers

\* group.sort_values("ts"): any order of the rows that is non-decreasing in
\* ts; the order of rows with equal ts is whatever the sort leaves
SortedOrders(rows) ==
    {ord \in PermSeqs(Len(rows)) :
        \A i, j \in 1..Len(rows) : i < j => rows[ord[i]].ts <= rows[ord[j]].ts}

\* the indices of one (account_id, device_fingerprint) group, in sorted order
GroupIndices(rows, ord, r) ==
    LET InGroup(i) == /\ rows[i].account_id = rows[r].account_id
                      /\ rows[i].device_fingerprint = rows[r].device_fingerprint
    IN  SelectSeq(ord, InGroup)

\* a lookback that reaches the start of the group
LookbackToStart(max_chain_len, pos) == pos - 1

\* lookback = min(max_chain_len, i) for the row at 0-based position i
Lookback(max_chain_len, pos) == Min2(max_chain_len, pos - 1)

\* an edge pass that hands the rows back in sorted order
AddParentEdgesSorted(rows, ord, offset) ==
    [r \in 1..Len(rows) |->
        [rows[ord[r]] EXCEPT !.parent_domain = "", !.parent = 0, !.group_pos = r - 1]]

\* add_parent_domain_edges: offset[r] = 0 when rng.random() >= chain_prob for
\* row r, else the parent_offset drawn in 1 .. lookback
AddParentEdges(rows, ord, offset) ==
    [r \in 1..Len(rows) |->
        LET indices == GroupIndices(rows, ord, r)
            pos == PosIn(indices, r)
        IN  IF offset[r] = 0
            THEN [rows[r] EXCEPT !.parent_domain = "", !.parent = 0,
                                 !.group_pos = pos - 1]
            ELSE [rows[r] EXCEPT !.parent_domain = rows[indices[pos - offset[r]]].base_domain,
                                 !.parent = indices[pos - offset[r]],
                                 !.group_pos = pos - 1]]

DNAddParentDomainEdges ==
    /\ dn_pc = "chains"
    /\ dn_max_chain_len' \in ChainLens
    /\ \E ord \in SortedOrders(dn_rows) :
       \E offset \in [1..Len(dn_rows) -> 0..Len(dn_rows)] :
         /\ \A r \in 1..Len(dn_rows) :
              offset[r] <= Lookback(dn_max_chain_len', PosIn(GroupIndices(dn_rows, ord, r), r))
         /\ dn_rows' = AddParentEdges(dn_rows, ord, offset)
    /\ dn_pc' = "done"
    /\ UNCHANGED <<dn_acct, dn_dev, dn_threshold>>
    /\ UNCHANGED DNOthers

DNNext ==
    \/ DNBenignQuery
    \/ DNNextAccount
    \/ DNMaliciousQuery
    \/ DNPassTwo
    \/ DNAddParentDomainEdges

SpecDns == DNInit /\ [][DNNext]_vars

(* C3: after add_parent_domain_edges, every row with a non-empty parent
   reference got it from a row of the same (account_id, device_fingerprint)
   pair whose timestamp is strictly less than its own. *)
C3_ParentStrictlyEarlier ==
    dn_pc = "done" =>
        \A r \in 1..Len(dn_rows) :
            dn_rows[r].parent_domain # "" =>
                LET p == dn_rows[dn_rows[r].parent]
                IN  /\ p.account_id = dn_rows[r].account_id
                    /\ p.device_fingerprint = dn_rows[r].device_fingerprint
                    /\ p.ts < dn_rows[r].ts

(* C5: after pass two a row's rare_domain flag is true if and only if the
   number of rows of the whole table, benign and malicious together, with
   the same base_domain is at most rare_domain_threshold; all rows of one
   domain carry the same flag. *)
C5_RareIffAtMostThreshold ==
    dn_pc \in {"chains", "done"} =>
        /\ \A r \in 1..Len(dn_rows) :
              dn_rows[r].rare_domain <=>
                  Cardinality({j \in 1..Len(dn_rows) :
                                  dn_rows[j].base_domain = dn_rows[r].base_domain})
                      <= dn_threshold
        /\ \A r, q \in 1..Len(dn_rows) :
              dn_rows[r].base_domain = dn_rows[q].base_domain =>
                  dn_rows[r].rare_domain = dn_rows[q].rare_domain

\* a domain seen exactly threshold times is rare, a more frequent one is not
C5_Witness ==
    /\ dn_pc = "chains"
    /\ \E r, q \in 1..Len(dn_rows) :
         /\ dn_rows[r].rare_domain
         /\ dn_rows[r].is_malicious
         /\ DomainCount(dn_rows, dn_rows[r].base_domain) = dn_threshold
         /\ ~dn_rows[q].rare_domain
         /\ ~dn_rows[q].is_malicious

\* the number of ancestor rows reached by following parent links from row r
RECURSIVE ChainDepth(_, _)
ChainDepth(rows, r) ==
    IF rows[r].parent = 0 THEN 0 ELSE 1 + ChainDepth(rows, rows[r].parent)

(* C18: after add_parent_domain_edges, following parent links transitively
   from any DNS row visits at most max_chain_len ancestor rows: the depth
   of every parent chain is bounded by the configured max_chain_len. *)
C18_ChainDepthBounded ==
    dn_pc = "done" =>
        \A r \in 1..Len(dn_rows) : ChainDepth(dn_rows, r) <= dn_max_chain_len

(* C19: within each (account, device) group ordered by time, a row at
   position i >= 1 that receives a parent receives it from one of the
   positions i - min(max_chain_len, i) .. i - 1 of the same group, and the
   row at position 0 of every group never receives a parent, for every
   max_chain_len >= 1. *)
C19_ParentWithinLookback ==
    (dn_pc = "done" /\ dn_max_chain_len >= 1) =>
        \A r \in 1..Len(dn_rows) :
            LET i == dn_rows[r].group_pos
            IN  /\ i = 0 => (dn_rows[r].parent = 0 /\ dn_rows[r].parent_domain = "")
                /\ dn_rows[r].parent # 0 =>
                     LET p == dn_rows[dn_rows[r].parent]
                     IN  /\ i >= 1
                         /\ p.account_id = dn_rows[r].account_id
                         /\ p.device_fingerprint = dn_rows[r].device_fingerprint
                         /\ p.group_pos \in (i - Min2(dn_max_chain_len, i)) .. (i - 1)
                         /\ dn_rows[r].parent_domain = p.base_domain

\* a group of three rows under max_chain_len = 2: the last row took the
\* farthest parent its window allows, and another group row sits at position 0
C19_Witness ==
    /\ dn_pc = "done"
    /\ dn_max_chain_len = 2
    /\ \E r, q \in 1..Len(dn_rows) :
         /\ dn_rows[r].group_pos = 2
         /\ dn_rows[r].parent = q
         /\ dn_rows[q].group_pos = 0
         /\ dn_rows[q].parent = 0

\* a row before and after the edge pass agree on every column but the lineage
SameButParent(before, after) ==
    [after EXCEPT !.parent_domain = before.parent_domain,
                  !.parent = before.parent,
                  !.group_pos = before.group_pos] = before

(* C20: add_parent_domain_edges changes only the parent_domain field: it
   adds and removes no row and leaves every other column of every row
   (timestamp, account, device, base_domain, flags, is_malicious) unchanged. *)
C20_OnlyParentDomainChanges ==
    [][(dn_pc = "chains" /\ dn_pc' = "done") =>
          /\ Len(dn_rows') = Len(dn_rows)
          /\ \A r \in 1..Len(dn_rows) : SameButParent(dn_rows[r], dn_rows'[r])]_vars

\* the pass ran over rows that are not in time order and linked one of them
C20_Witness ==
    /\ dn_pc = "done"
    /\ \E r, q \in 1..Len(dn_rows) :
         /\ r < q
         /\ dn_rows[r].ts > dn_rows[q].ts
         /\ dn_rows[r].parent = q
         /\ dn_rows[r].parent_domain # ""

(***************************************************************************)
(* generate_identity_events.py.                                            *)
(* Timestamps are minutes.  An event keeps the columns the chain builder   *)
(* sets; node is the enrichment row the ip and asn were taken from (0 for  *)
(* an event copied from a session, which keeps the session's own).         *)
(***************************************************************************)
MfaAddMinutes == 2

SecondSigninMinutes == 10

MailboxRuleMinutes == 18

OauthConsentMinutes == 25

IdEvent(ts, acct, node, dev, type, outcome, attack) ==
    [ts |-> ts, account_id |-> acct, node |-> node, device_fingerprint |-> dev,
     event_type |-> type, outcome |-> outcome, is_attack |-> attack]

\* round(): to the nearest integer, a half to the even one
RoundHalfEven(num, den) ==
    LET q == num \div den
        r2 == 2 * (num % den)
    IN  IF r2 < den THEN q
        ELSE IF r2 > den THEN q + 1
        ELSE IF q % 2 = 0 THEN q ELSE q + 1

\* a count of compromised accounts without the floor of one
NCompNoFloor(n_total, fraction) ==
    Min2(RoundHalfEven(n_total * fraction[1], fraction[2]), n_total)

\* n_comp = min(int(max(1, round(n_total * compromised_fraction))), n_total)
NComp(n_total, fraction) ==
    Min2(Max2(1, RoundHalfEven(n_total * fraction[1], fraction[2])), n_total)

\* a lower end of the burst that is the configured one
FailureMinAsConfigured(fb) == fb[1]

\* failure_min = max(1, min_failures); failure_max = max(failure_min, max_failures)
FailureMin(fb) == Max2(1, fb[1])

FailureMax(fb) == Max2(FailureMin(fb), fb[2])

\* np.sort(rng.integers(1, 10, size=n_fail)): n_fail offsets, ascending
SortedOffsets(n) ==
    {f \in [1..n -> FailOffsets] : \A i, j \in 1..n : i < j => f[i] <= f[j]}

\* the orders in which sample() can return the members of a set
OrdersOf(S) ==
    {f \in [1..Cardinality(S) -> S] : \A i, j \in 1..Cardinality(S) : f[i] = f[j] => i = j}

\* base: every session start as a successful sign-in that is no attack
RECURSIVE BaseEvents(_)
BaseEvents(S) ==
    IF S = {} THEN <<>>
    ELSE LET s == CHOOSE x \in S : \A y \in S :
                      <<x.account_id, x.device_fingerprint>> = <<y.account_id, y.device_fingerprint>>
                      \/ x.account_id < y.account_id
                      \/ (x.account_id = y.account_id /\ x.device_fingerprint < y.device_fingerprint)
         IN  <<IdEvent(s.start_ts, s.account_id, 0, s.device_fingerprint,
                       "auth.signin", "success", FALSE)>> \o BaseEvents(S \ {s})

\* mutant: the second sign-in of the chain is left out
ChainEventsOneSuccess(acct, anchor_ts, dev, node, offsets) ==
    [i \in 1..Len(offsets) |->
        IdEvent(anchor_ts - offsets[i], acct, node, dev, "auth.signin", "failure", TRUE)]
    \o <<IdEvent(anchor_ts, acct, node, dev, "auth.signin", "success", TRUE),
         IdEvent(anchor_ts + MfaAddMinutes, acct, node, dev, "auth.mfa.add", "", TRUE),
         IdEvent(anchor_ts + MailboxRuleMinutes, acct, node, dev, "mailbox.rule.create", "", TRUE),
         IdEvent(anchor_ts + OauthConsentMinutes, acct, node, dev, "oauth.consent.grant", "", TRUE)>>

\* a chain whose second sign-in is not given the attack origin
ChainEventsSecondElsewhere(acct, anchor_ts, dev, node, offsets) ==
    [i \in 1..Len(offsets) |->
        IdEvent(anchor_ts - offsets[i], acct, node, dev, "auth.signin", "failure", TRUE)]
    \o <<IdEvent(anchor_ts, acct, node, dev, "auth.signin", "success", TRUE),
         IdEvent(anchor_ts + MfaAddMinutes, acct, node, dev, "auth.mfa.add", "", TRUE),
         IdEvent(anchor_ts + SecondSigninMinutes, acct, 0, dev, "auth.signin", "success", TRUE),
         IdEvent(anchor_ts + MailboxRuleMinutes, acct, node, dev, "mailbox.rule.create", "", TRUE),
         IdEvent(anchor_ts + OauthConsentMinutes, acct, node, dev, "oauth.consent.grant", "", TRUE)>>

\* fail_df, success_df, mfa_df, success2_df, mailbox_df, oauth_df of one chain
ChainEvents(acct, anchor_ts, dev, node, offsets) ==
    [i \in 1..Len(offsets) |->
        IdEvent(anchor_ts - offsets[i], acct, node, dev, "auth.signin", "failure", TRUE)]
    \o <<IdEvent(anchor_ts, acct, node, dev, "auth.signin", "success", TRUE),
         IdEvent(anchor_ts + MfaAddMinutes, acct, node, dev, "auth.mfa.add", "", TRUE),
         IdEvent(anchor_ts + SecondSigninMinutes, acct, node, dev, "auth.signin", "success", TRUE),
         IdEvent(anchor_ts + MailboxRuleMinutes, acct, node, dev, "mailbox.rule.create", "", TRUE),
         IdEvent(anchor_ts + OauthConsentMinutes, acct, node, dev, "oauth.consent.grant", "", TRUE)>>

\* enrich_pool: the rows with an ip and an asn
enrich_pool(enrich) == {e \in enrich : e.ip # ""}

\* preferred: the rows of enrich_pool of a hosting- or vpn-like kind
preferred(enrich) ==
    {e \in enrich_pool(enrich) :
        \/ e.provider_category \in {"hosting", "vpn", "cloud", "edge"}
        \/ e.asn_type \in {"hosting", "vpn", "cloud"}}

\* pool = preferred if len(preferred) >= 50 else enrich_pool
AttackPool(enrich) ==
    IF Cardinality(preferred(enrich)) >= PreferredMin
    THEN preferred(enrich)
    ELSE enrich_pool(enrich)

IDOthers == <<cwVars, dmVars, dnVars, mnVars, rwVars, rpVars, paVars, btVars, dvVars, deVars, anVars, dsVars, ptVars, acVars, cpVars>>

\* the tables and the identity_events section of the configuration
IDInit ==
    /\ CPIdle
    /\ ACIdle
    /\ PTIdle
    /\ DSIdle
    /\ ANIdle
    /\ DEIdle
    /\ DVIdle
    /\ BTIdle
    /\ PAIdle
    /\ RWIdle
    /\ RPIdle
    /\ MNIdle
    /\ CWIdle
    /\ DMIdle
    /\ DNIdle
    /\ id_pc = "select"
    /\ id_n_total \in IdAccountCounts
    /\ id_sessions \in SUBSET SessionChoices
    /\ id_enrich \in EnrichTables
    /\ id_fraction \in FractionChoices
    /\ id_failure_burst \in FailureBursts
    /\ id_comp = <<>>
    /\ id_events = <<>>
    /\ id_chains = <<>>

\* comp = unique_accounts.sample(n=n_comp); events.append(base)
IDSelectCompromised ==
    /\ id_pc = "select"
    /\ enrich_pool(id_enrich) # {}
    /\ \E C \in SUBSET (1..id_n_total) :
         /\ Cardinality(C) = NComp(id_n_total, id_fraction)
         /\ id_comp' \in OrdersOf(C)
    /\ id_events' = BaseEvents(id_sessions)
    /\ id_pc' = "chains"
    /\ UNCHANGED <<id_n_total, id_sessions, id_enrich, id_fraction, id_failure_burst, id_chains>>
    /\ UNCHANGED IDOthers

\* raise ValueError("enrichment_ip has no usable rows (ip/asn)")
IDNoEnrichment ==
    /\ id_pc = "select"
    /\ enrich_pool(id_enrich) = {}
    /\ id_pc' = "ValueError"
    /\ UNCHANGED <<id_n_total, id_sessions, id_enrich, id_fraction, id_failure_burst, id_comp,
                   id_events, id_chains>>
    /\ UNCHANGED IDOthers

\* the sessions a chain may anchor to: the account's own, else any session
AnchorCandidates(sessions, acct) ==
    LET own == {x \in sessions : x.account_id = acct}
    IN  IF own = {} THEN sessions ELSE own

\* one iteration of the loop over comp: the chain of the next account
IDBuildChain ==
    /\ id_pc = "chains"
    /\ Len(id_comp) > 0
    /\ AnchorCandidates(id_sessions, Head(id_comp)) # {}
    /\ \E anchor_s \in AnchorCandidates(id_sessions, Head(id_comp)),
          attack_origin \in AttackPool(id_enrich) :
       \E n_fail \in FailureMin(id_failure_burst)..FailureMax(id_failure_burst) :
       \E offsets \in SortedOffsets(n_fail) :
         /\ id_events' = id_events \o ChainEvents(Head(id_comp), anchor_s.start_ts,
                                                  anchor_s.device_fingerprint, attack_origin.node,
                                                  offsets)
         /\ id_chains' = Append(id_chains,
                                [account_id |-> Head(id_comp), anchor_ts |-> anchor_s.start_ts,
                                 device_fingerprint |-> anchor_s.device_fingerprint,
                                 node |-> attack_origin.node, n_fail |-> n_fail])
    /\ id_comp' = Tail(id_comp)
    /\ UNCHANGED <<id_pc, id_n_total, id_sessions, id_enrich, id_fraction, id_failure_burst>>
    /\ UNCHANGED IDOthers

\* acct_sessions.sample(n=1) on an empty sessions table raises ValueError
IDNoSession ==
    /\ id_pc = "chains"
    /\ Len(id_comp) > 0
    /\ AnchorCandidates(id_sessions, Head(id_comp)) = {}
    /\ id_pc' = "ValueError"
    /\ UNCHANGED <<id_n_total, id_sessions, id_enrich, id_fraction, id_failure_burst, id_comp,
                   id_events, id_chains>>
    /\ UNCHANGED IDOthers

\* out = pd.concat(events); out.to_parquet(...)
IDWrite ==
    /\ id_pc = "chains"
    /\ Len(id_comp) = 0
    /\ id_pc' = "done"
    /\ UNCHANGED <<id_n_total, id_sessions, id_enrich, id_fraction, id_failure_burst, id_comp,
                   id_events, id_chains>>
    /\ UNCHANGED IDOthers

IDNext ==
    \/ IDSelectCompromised
    \/ IDNoEnrichment
    \/ IDBuildChain
    \/ IDNoSession
    \/ IDWrite

SpecIdentity == IDInit /\ [][IDNext]_vars

\* the attack-flagged events of an account, in table order
AttackEventsOf(acct) ==
    LET Mine(e) == e.is_attack /\ e.account_id = acct
    IN  SelectSeq(id_events, Mine)

\* what is compared of an event: its type, its outcome and its timestamp
Shape(e) == <<e.event_type, e.outcome, e.ts>>

(* C4: for every compromised account the attack-flagged events are exactly
   one burst of failed sign-ins, a successful sign-in at the anchor
   timestamp, an MFA-device addition at anchor + 2 minutes, a second
   successful sign-in at anchor + 10, a mailbox-rule creation at anchor + 18
   and an OAuth consent grant at anchor + 25: two attack-flagged successes
   per compromised account. *)
C4_ChainShape ==
    id_pc = "done" =>
        \A c \in 1..Len(id_chains) :
            LET ch == id_chains[c]
                E == AttackEventsOf(ch.account_id)
                nf == Len(E) - 5
            IN  /\ nf >= 1
                /\ \A i \in 1..nf : /\ E[i].event_type = "auth.signin"
                                     /\ E[i].outcome = "failure"
                /\ Shape(E[nf + 1]) = <<"auth.signin", "success", ch.anchor_ts>>
                /\ Shape(E[nf + 2]) = <<"auth.mfa.add", "", ch.anchor_ts + 2>>
                /\ Shape(E[nf + 3]) = <<"auth.signin", "success", ch.anchor_ts + 10>>
                /\ Shape(E[nf + 4]) = <<"mailbox.rule.create", "", ch.anchor_ts + 18>>
                /\ Shape(E[nf + 5]) = <<"oauth.consent.grant", "", ch.anchor_ts + 25>>
                /\ Cardinality({i \in 1..Len(E) : E[i].outcome = "success"}) = 2

\* two accounts compromised, one of them anchored to another account's session
C4_Witness ==
    /\ id_pc = "done"
    /\ Len(id_chains) = 2
    /\ \E c \in 1..2 : id_chains[c].n_fail = 2
    /\ \E c \in 1..2 : \A x \in id_sessions : x.account_id # id_chains[c].account_id

(* C24: all events of one compromised account's chain carry the same attack
   IP and ASN, both taken from one enrichment row, the same device
   fingerprint, which is that of the anchor session, and is_attack = true;
   every event copied from the sessions table carries is_attack = false. *)
C24_ChainSharesOriginAndDevice ==
    id_pc = "done" =>
        /\ \A c \in 1..Len(id_chains) :
              LET ch == id_chains[c]
                  E == AttackEventsOf(ch.account_id)
              IN  /\ Len(E) = ch.n_fail + 5
                  /\ \E e \in enrich_pool(id_enrich) :
                        \A i \in 1..Len(E) : E[i].node = e.node
                  /\ \E x \in id_sessions :
                        /\ x.start_ts = ch.anchor_ts
                        /\ \A i \in 1..Len(E) :
                              E[i].device_fingerprint = x.device_fingerprint
        /\ \A i \in 1..Len(id_events) :
              IF i <= Cardinality(id_sessions)
              THEN /\ ~id_events[i].is_attack
                   /\ \E x \in id_sessions :
                         /\ x.account_id = id_events[i].account_id
                         /\ x.start_ts = id_events[i].ts
                         /\ x.device_fingerprint = id_events[i].device_fingerprint
              ELSE /\ id_events[i].is_attack
                   /\ \E c \in 1..Len(id_chains) :
                         id_chains[c].account_id = id_events[i].account_id

\* two chains from different origins beside events copied from the sessions
C24_Witness ==
    /\ id_pc = "done"
    /\ Len(id_chains) = 2
    /\ id_chains[1].node # id_chains[2].node
    /\ id_chains[1].n_fail = 2
    /\ Cardinality(id_sessions) >= 2
    /\ \E i \in 1..Len(id_events) : ~id_events[i].is_attack

\* the failed sign-ins of a chain
FailuresOf(acct) ==
    LET Failed(e) == e.is_attack /\ e.account_id = acct /\ e.outcome = "failure"
    IN  SelectSeq(id_events, Failed)

\* every failure is before the anchor by at most window minutes, and the rest
\* of the chain follows the anchor in time and in table order
BurstLeadsChain(ch, window) ==
    LET E == AttackEventsOf(ch.account_id)
        nf == Len(FailuresOf(ch.account_id))
    IN  /\ \A i \in 1..nf : /\ E[i].outcome = "failure"
                            /\ E[i].ts < ch.anchor_ts
                            /\ ch.anchor_ts - E[i].ts <= window
        /\ Len(E) = nf + 5
        /\ E[nf + 1].ts = ch.anchor_ts
        /\ <<E[nf + 1].event_type, E[nf + 2].event_type, E[nf + 3].event_type,
             E[nf + 4].event_type, E[nf + 5].event_type>>
               = <<"auth.signin", "auth.mfa.add", "auth.signin",
                   "mailbox.rule.create", "oauth.consent.grant">>
        /\ \A i \in (nf + 1)..(nf + 4) : E[i].ts < E[i + 1].ts

(* C25: in every account-takeover chain the number of failed sign-ins lies
   within the configured [min_failures, max_failures] range, and every
   failed sign-in is timestamped strictly before the anchor success and at
   most 10 minutes before it, so that each chain is ordered failures,
   success, MFA addition, second success, mailbox rule, OAuth consent. *)
C25_FailuresInConfiguredRange ==
    id_pc = "done" =>
        \A c \in 1..Len(id_chains) :
            /\ Len(FailuresOf(id_chains[c].account_id))
                   \in id_failure_burst[1]..id_failure_burst[2]
            /\ BurstLeadsChain(id_chains[c], 10)

(* C25, amended: the number of failed sign-ins lies between
   lo = max(1, min_failures) and max(lo, max_failures), and every failed
   sign-in is timestamped 1 to 9 minutes before the anchor success, so that
   each chain is ordered failures, success, MFA addition, second success,
   mailbox rule, OAuth consent. *)
C25_FailuresInClampedRange ==
    id_pc = "done" =>
        \A c \in 1..Len(id_chains) :
            LET lo == IF id_failure_burst[1] < 1 THEN 1 ELSE id_failure_burst[1]
                hi == IF id_failure_burst[2] < lo THEN lo ELSE id_failure_burst[2]
            IN  /\ Len(FailuresOf(id_chains[c].account_id)) \in lo..hi
                /\ BurstLeadsChain(id_chains[c], 9)

\* a chain built under min_failures = 2 > max_failures = 1 with a failure at
\* the far end of the window
C25_Witness ==
    /\ id_pc = "done"
    /\ id_failure_burst = <<2, 1>>
    /\ \E c \in 1..Len(id_chains) :
         LET F == FailuresOf(id_chains[c].account_id)
         IN  /\ Len(F) = 2
             /\ \E i \in 1..2 : F[i].ts = id_chains[c].anchor_ts - 9

\* the kinds of enrichment row the origin of an attack is biased to
HostingOrVpnLike(e) ==
    \/ e.provider_category \in {"hosting", "vpn", "cloud", "edge"}
    \/ e.asn_type \in {"hosting", "vpn", "cloud"}

(* C26: whenever the enrichment pool contains at least one hosting/VPN-like
   node, the attack infrastructure node of every account-takeover chain is
   chosen among the hosting/VPN-like nodes; the full enrichment pool is
   used only when no such node exists. *)
C26_PreferredWheneverPresent ==
    \A c \in 1..Len(id_chains) :
        (\E e \in id_enrich : e.ip # "" /\ HostingOrVpnLike(e)) =>
            \E e \in id_enrich :
                e.ip # "" /\ HostingOrVpnLike(e) /\ e.node = id_chains[c].node

(* C29: the identity generator builds exactly one chain per compromised
   account, and the number of compromised accounts is
   min(max(1, round(compromised_fraction * accounts)), accounts): at least
   one account is compromised whenever the accounts table is non-empty,
   also for a configured fraction of 0, and never more accounts than
   exist. *)
C29_OneChainPerCompromised ==
    id_pc = "done" =>
        LET rounded == RoundHalfEven(id_n_total * id_fraction[1], id_fraction[2])
            floored == IF rounded < 1 THEN 1 ELSE rounded
            n_comp == IF floored > id_n_total THEN id_n_total ELSE floored
        IN  /\ Len(id_chains) = n_comp
            /\ \A c, k \in 1..Len(id_chains) :
                  id_chains[c].account_id = id_chains[k].account_id => c = k
            /\ \A c \in 1..Len(id_chains) :
                  /\ id_chains[c].account_id \in 1..id_n_total
                  /\ Cardinality({i \in 1..Len(id_events) :
                        /\ id_events[i].is_attack
                        /\ id_events[i].account_id = id_chains[c].account_id
                        /\ id_events[i].event_type = "oauth.consent.grant"}) = 1
            /\ id_n_total > 0 => Len(id_chains) >= 1
            /\ Len(id_chains) <= id_n_total

\* one of two accounts compromised under a configured fraction of 0
C29_Witness ==
    /\ id_pc = "done"
    /\ id_fraction = <<0, 1>>
    /\ id_n_total = 2
    /\ Len(id_chains) = 1
    /\ Len(AttackEventsOf(id_chains[1].account_id)) >= 6

(***************************************************************************)
(* generate_dataset.py: main, as the order in which it reads the keys of   *)
(* the configuration, builds rows and writes tables.  A required key is    *)
(* one main subscripts (cfg["content"]), so that its absence raises        *)
(* KeyError where it is read; an optional section is one it reads with     *)
(* .get and a default.                                                     *)
(***************************************************************************)
RequiredKeys ==
    {"generation", "entities", "infra.asn_pool_sizes", "campaigns[0].coordination",
     "content", "telemetry_schema", "models", "moderation",
     "infra.baseline_asn_type_probs", "wave.start_offset_hours",
     "wave.duration_minutes", "meta"}

\* what a configuration can switch on: campaigns[0] present and enabled with
\* timing waves, sessions.enabled, osint.enabled, rate_limits.enabled
OptionalSections == {"campaign", "sessions", "osint", "rate_limits"}

DimensionTables == {"orgs", "accounts", "devices", "enrichment_ip"}

MNOthers == <<cwVars, dmVars, dnVars, idVars, rwVars, rpVars, paVars, btVars, dvVars, deVars, anVars, dsVars, ptVars, acVars, cpVars>>

MNInit ==
    /\ CPIdle
    /\ ACIdle
    /\ PTIdle
    /\ DSIdle
    /\ ANIdle
    /\ DEIdle
    /\ DVIdle
    /\ BTIdle
    /\ PAIdle
    /\ RWIdle
    /\ RPIdle
    /\ CWIdle
    /\ DMIdle
    /\ DNIdle
    /\ IDIdle
    /\ mn_pc = "generation"
    /\ mn_missing \in {{}} \cup {{k} : k \in RequiredKeys}
    /\ mn_enabled \in SUBSET OptionalSections
    /\ mn_total_rows \in 0..MaxTotalRows
    /\ mn_generated = {}
    /\ mn_persisted = {}
    /\ mn_llm_rows = 0

\* the rest of a step of main that subscripts the keys `needs`, then generates the rows
\* of the tables `builds` and writes the tables `writes`
MNStep(needs, builds, writes, next) ==
    /\ IF needs \cap mn_missing # {}
       THEN mn_pc' = "KeyError" /\ UNCHANGED <<mn_generated, mn_persisted>>
       ELSE /\ mn_pc' = next
            /\ mn_generated' = mn_generated \cup builds
            /\ mn_persisted' = mn_persisted \cup writes
    /\ UNCHANGED <<mn_missing, mn_enabled, mn_total_rows, mn_llm_rows>>
    /\ UNCHANGED MNOthers

\* seed, output_dir, total_rows, time_range_utc
MNReadGeneration ==
    /\ mn_pc = "generation"
    /\ MNStep({"generation"}, {}, {}, "entities")

\* build_dimension_tables: orgs, accounts and devices
MNBuildEntities ==
    /\ mn_pc = "entities"
    /\ MNStep({"entities"}, {"orgs", "accounts", "devices"}, {}, "infra")

\* build_dimension_tables: enrichment_ip
MNBuildEnrichment ==
    /\ mn_pc = "infra"
    /\ MNStep({"infra.asn_pool_sizes"}, {"enrichment_ip"}, {}, "write_dims")

\* for name, table in dims.items(): write_parquet(...)
MNWriteDimensions ==
    /\ mn_pc = "write_dims"
    /\ MNStep({}, {}, DimensionTables, "plan")

\* build_campaign_plan: c0["coordination"], read when campaigns is not empty
MNBuildCampaignPlan ==
    /\ mn_pc = "plan"
    /\ MNStep(IF "campaign" \in mn_enabled THEN {"campaigns[0].coordination"} ELSE {},
           {}, {}, "content")

\* content pools, language pools, model and moderation probabilities
MNReadContent ==
    /\ mn_pc = "content"
    /\ MNStep({"content"}, {}, {}, "telemetry_schema")

MNReadTelemetrySchema ==
    /\ mn_pc = "telemetry_schema"
    /\ MNStep({"telemetry_schema"}, {}, {}, "models")

MNReadModels ==
    /\ mn_pc = "models"
    /\ MNStep({"models"}, {}, {}, "moderation")

MNReadModeration ==
    /\ mn_pc = "moderation"
    /\ MNStep({"moderation"}, {}, {}, "sessions")

\* if sess_enabled: the sessions table is built and written
MNWriteSessions ==
    /\ mn_pc = "sessions"
    /\ MNStep({},
           IF "sessions" \in mn_enabled THEN {"sessions"} ELSE {},
           IF "sessions" \in mn_enabled THEN {"sessions"} ELSE {}, "osint")

\* if osint_enabled: the osint_observations table is built and written
MNWriteOsint ==
    /\ mn_pc = "osint"
    /\ MNStep({},
           IF "osint" \in mn_enabled THEN {"osint_observations"} ELSE {},
           IF "osint" \in mn_enabled THEN {"osint_observations"} ELSE {}, "baseline")

\* infra_baseline_probs = dict(cfg["infra"]["baseline_asn_type_probs"])
MNReadBaselineProbs ==
    /\ mn_pc = "baseline"
    /\ MNStep({"infra.baseline_asn_type_probs"}, {}, {}, "llm")

\* llm_batches: one row; a campaign row placed in a wave subscripts the
\* wave's start_offset_hours and duration_minutes in pick_ts_for_request
MNGenerateRow ==
    /\ mn_pc = "llm"
    /\ mn_llm_rows < mn_total_rows
    /\ \E in_wave \in {FALSE} \cup {"campaign" \in mn_enabled} :
         IF /\ in_wave
            /\ {"wave.start_offset_hours", "wave.duration_minutes"} \cap mn_missing # {}
         THEN mn_pc' = "KeyError" /\ UNCHANGED <<mn_llm_rows, mn_generated>>
         ELSE /\ mn_pc' = mn_pc
              /\ mn_llm_rows' = mn_llm_rows + 1
              /\ mn_generated' = mn_generated \cup {"llm_requests"}
    /\ UNCHANGED <<mn_missing, mn_enabled, mn_total_rows, mn_persisted>>
    /\ UNCHANGED MNOthers

\* write_parquet_batches(llm_path, llm_schema, llm_batches()) completes; a
\* KeyError raised while rows are generated leaves the file without them
MNWriteRequests ==
    /\ mn_pc = "llm"
    /\ mn_llm_rows = mn_total_rows
    /\ MNStep({}, {}, {"llm_requests"}, "derived")

\* moderation_events, and rate_limit_events when rate_limits.enabled
MNWriteDerived ==
    /\ mn_pc = "derived"
    /\ MNStep({},
           {"moderation_events"} \cup
               (IF "rate_limits" \in mn_enabled THEN {"rate_limit_events"} ELSE {}),
           {"moderation_events"} \cup
               (IF "rate_limits" \in mn_enabled THEN {"rate_limit_events"} ELSE {}),
           "meta")

\* meta_path.write_text(f"case_id={cfg['meta'].get(...)} ...")
MNWriteMeta ==
    /\ mn_pc = "meta"
    /\ MNStep({"meta"}, {}, {}, "done")

MNNext ==
    \/ MNReadGeneration
    \/ MNBuildEntities
    \/ MNBuildEnrichment
    \/ MNWriteDimensions
    \/ MNBuildCampaignPlan
    \/ MNReadContent
    \/ MNReadTelemetrySchema
    \/ MNReadModels
    \/ MNReadModeration
    \/ MNWriteSessions
    \/ MNWriteOsint
    \/ MNReadBaselineProbs
    \/ MNGenerateRow
    \/ MNWriteRequests
    \/ MNWriteDerived
    \/ MNWriteMeta

SpecMain == MNInit /\ [][MNNext]_vars

(* C9: if a configuration key the primary generator reads as required is
   missing, the run fails before any dimension row or event row has been
   generated or written: no run that ends in a configuration error has
   persisted a table. *)
C9_FailsBeforeAnyRow ==
    mn_pc = "KeyError" =>
        /\ mn_generated = {}
        /\ mn_persisted = {}
        /\ mn_llm_rows = 0

(***************************************************************************)
(* generate_dataset.py: build_campaign_plan, pick_ts_for_request, pick_asn *)
(* and the row loop of llm_batches.  Times are minutes after start (the    *)
(* code draws seconds).  A row keeps the columns the plan biases: ts,      *)
(* account_id, org_id and asn.                                             *)
(***************************************************************************)
MinutesPerHour == 60

RowOrgIds == {1, 2}

RowAccountIds == {1, 2}

\* dims["enrichment_ip"]: one hosting node and one residential node
EnrichmentRows ==
    {[asn |-> 64500, asn_type |-> "hosting", provider_brand_bucket |-> "cloud_a"],
     [asn |-> 64501, asn_type |-> "residential", provider_brand_bucket |-> "isp_a"]}

asns(rows) == {e.asn : e \in rows}

by_asn_type(rows, t) == {e.asn : e \in {x \in rows : x.asn_type = t}}

by_provider_bucket(rows, pb) ==
    {e.asn : e \in {x \in rows : x.provider_brand_bucket = pb}}

\* the labels of plan.asn_type_probs or its default, and of
\* infra.baseline_asn_type_probs; all with a positive weight
CampaignAsnTypes == {"hosting", "vpn", "residential"}

BaselineAsnTypes == {"residential", "hosting"}

\* timing.waves of campaigns[0]: none, one inside the time range, one that
\* starts after its end
WaveLists ==
    {<<>>,
     <<[start_offset_hours |-> 0, duration_minutes |-> 2]>>,
     <<[start_offset_hours |-> 1, duration_minutes |-> 2]>>}

\* infra_bias.provider_bucket_focus: none, a bucket with a node, one without
FocusLists == {<<>>, <<"cloud_a">>, <<"cloud_z">>}

\* share_of_rows, in DrawDen-ths
ShareChoices == {0, 2, DrawDen}

TouchedRanges == {<<0, 0>>, <<1, 2>>}

\* the enabled flags of the campaigns after the first: none, or one enabled
LaterCampaigns == {<<>>, <<TRUE>>}

\* CampaignPlan(False, 0.0, [], [], [], ...), returned when campaigns is empty
EmptyPlan ==
    [enabled |-> FALSE, share_of_rows |-> 0, org_ids |-> {}, account_ids |-> {},
     focus_provider_buckets |-> <<>>, waves |-> <<>>]

build_campaign_plan(c0, touched_orgs, touched_accounts) ==
    [enabled |-> c0.enabled,
     share_of_rows |-> c0.share_of_rows,
     org_ids |-> touched_orgs,
     account_ids |-> touched_accounts,
     focus_provider_buckets |-> c0.provider_bucket_focus,
     waves |-> c0.waves]

\* rng.sample(pool, k=min(len(pool), k)): the lists it can return, as sets
Sample(pool, k) == {S \in SUBSET pool : Cardinality(S) = Min2(Cardinality(pool), k)}

\* start + timedelta(seconds=rng.randint(0, span_seconds - 1))
UniformTs == 0..(Max2(1, SpanMinutes) - 1)

WaveTs(wave) ==
    LET wave_start == wave.start_offset_hours * MinutesPerHour
        wave_end == Min2(SpanMinutes, wave_start + wave.duration_minutes)
    IN  IF wave_end <= wave_start
        THEN UniformTs
        ELSE {wave_start + d : d \in 0..(Max2(1, wave_end - wave_start) - 1)}

\* the timestamps pick_ts_for_request can return
pick_ts_for_request(is_campaign, plan) ==
    IF ~is_campaign \/ ~plan.enabled \/ plan.waves = <<>>
    THEN UniformTs
    ELSE UniformTs \cup UNION {WaveTs(plan.waves[i]) : i \in DOMAIN plan.waves}

\* what a call of pick_asn ends with: the node and the label returned, or
\* IndexError; t, pb and tb are the campaign type, the focus bucket and the
\* baseline type drawn on the way ("" when not drawn)
Picked(asn, label, t, pb, tb) ==
    [raised |-> FALSE, asn |-> asn, label |-> label, t |-> t, pb |-> pb, tb |-> tb]

PickRaised(t, pb, tb) ==
    [raised |-> TRUE, asn |-> 0, label |-> "", t |-> t, pb |-> pb, tb |-> tb]

\* the baseline branch of pick_asn: choose_weighted raises IndexError on an
\* empty mapping, rng.choice on an empty list
BaselineAsns(rows, baseline_types, t, pb) ==
    IF baseline_types = {}
    THEN {PickRaised(t, pb, "")}
    ELSE UNION {IF by_asn_type(rows, tb) # {}
                THEN {Picked(a, tb, t, pb, tb) : a \in by_asn_type(rows, tb)}
                ELSE IF asns(rows) = {}
                     THEN {PickRaised(t, pb, tb)}
                     ELSE {Picked(a, "residential", t, pb, tb) : a \in asns(rows)}
                : tb \in baseline_types}

\* cand = by_asn_type.get(t, []) of the campaign branch, which falls through
\* to the baseline branch when cand is empty
CampaignTypeAsns(rows, baseline_types, t, pb) ==
    IF by_asn_type(rows, t) # {}
    THEN {Picked(a, t, t, pb, "") : a \in by_asn_type(rows, t)}
    ELSE BaselineAsns(rows, baseline_types, t, pb)

\* pick_asn without the step through the nodes of the type drawn
pick_asn_no_type_step(is_campaign, plan, rows, baseline_types) ==
    IF is_campaign /\ plan.enabled
    THEN UNION {
           BaselineAsns(rows, baseline_types, t, "") \cup
           UNION {LET pb == plan.focus_provider_buckets[i]
                  IN  IF by_provider_bucket(rows, pb) # {}
                      THEN {Picked(a, t, t, pb, "") : a \in by_provider_bucket(rows, pb)}
                      ELSE BaselineAsns(rows, baseline_types, t, pb)
                  : i \in DOMAIN plan.focus_provider_buckets}
           : t \in CampaignAsnTypes}
    ELSE BaselineAsns(rows, baseline_types, "", "")

\* the ways a call of pick_asn can end
pick_asn(is_campaign, plan, rows, baseline_types) ==
    IF is_campaign /\ plan.enabled
    THEN UNION {
           CampaignTypeAsns(rows, baseline_types, t, "") \cup
           UNION {LET pb == plan.focus_provider_buckets[i]
                  IN  IF by_provider_bucket(rows, pb) # {}
                      THEN {Picked(a, t, t, pb, "") : a \in by_provider_bucket(rows, pb)}
                      ELSE CampaignTypeAsns(rows, baseline_types, t, pb)
                  : i \in DOMAIN plan.focus_provider_buckets}
           : t \in CampaignAsnTypes}
    ELSE BaselineAsns(rows, baseline_types, "", "")

RWOthers == <<cwVars, dmVars, dnVars, idVars, mnVars, rpVars, paVars, btVars, dvVars, deVars, anVars, dsVars, ptVars, acVars, cpVars>>

RWInit ==
    /\ CPIdle
    /\ ACIdle
    /\ PTIdle
    /\ DSIdle
    /\ ANIdle
    /\ DEIdle
    /\ DVIdle
    /\ BTIdle
    /\ PAIdle
    /\ CWIdle
    /\ DMIdle
    /\ DNIdle
    /\ IDIdle
    /\ MNIdle
    /\ RPIdle
    /\ rw_pc = "plan"
    /\ \/ rw_c0 = NoPlan /\ rw_campaigns = <<>>
       \/ /\ rw_c0 \in [enabled : BOOLEAN, share_of_rows : ShareChoices,
                          orgs_touched : TouchedRanges, accounts_touched : TouchedRanges,
                          provider_bucket_focus : FocusLists, waves : WaveLists]
          /\ \E later \in LaterCampaigns : rw_campaigns = <<rw_c0.enabled>> \o later
    /\ rw_plan = NoPlan
    /\ rw_account_org_map = [a \in RowAccountIds |-> a]
    /\ rw_row = NoRow
    /\ rw_count = 0

\* plan = build_campaign_plan(cfg, rng, dims): c0 = campaigns[0]
RWBuildCampaignPlan ==
    /\ rw_pc = "plan"
    /\ IF rw_campaigns = <<>>
       THEN rw_plan' = EmptyPlan
       ELSE
       \E ko \in rw_c0.orgs_touched[1]..rw_c0.orgs_touched[2],
          ka \in rw_c0.accounts_touched[1]..rw_c0.accounts_touched[2] :
         \E touched_orgs \in Sample(RowOrgIds, ko),
            touched_accounts \in Sample(RowAccountIds, ka) :
              rw_plan' = build_campaign_plan(rw_c0, touched_orgs, touched_accounts)
    /\ rw_pc' = "rows"
    /\ UNCHANGED <<rw_c0, rw_account_org_map, rw_row, rw_count, rw_campaigns>>
    /\ UNCHANGED RWOthers

\* one pass of `for _ in range(n)`: rng.choice of an empty list raises
\* IndexError, and the default of account_org_map.get is evaluated before
\* the lookup
RWGenerateRow ==
    /\ rw_pc = "rows"
    /\ rw_count < MaxRows
    /\ \E k \in 0..(DrawDen - 1) :
         LET is_campaign == rw_plan.enabled /\ k < rw_plan.share_of_rows
         IN  \E t \in pick_ts_for_request(is_campaign, rw_plan) :
               IF is_campaign /\ (rw_plan.account_ids = {} \/ rw_plan.org_ids = {})
               THEN /\ rw_pc' = "IndexError"
                    /\ UNCHANGED <<rw_account_org_map, rw_row, rw_count>>
               ELSE \E a \in (IF is_campaign THEN rw_plan.account_ids ELSE RowAccountIds),
                       push \in BOOLEAN,
                       touched \in (IF is_campaign THEN rw_plan.org_ids ELSE RowOrgIds),
                       chosen_asn \in {p.asn : p \in pick_asn(is_campaign, rw_plan,
                                                              EnrichmentRows,
                                                              BaselineAsnTypes)} :
                      LET o == IF is_campaign /\ push
                               THEN touched
                               ELSE rw_account_org_map[a]
                      IN  /\ rw_account_org_map' =
                                IF is_campaign
                                THEN [rw_account_org_map EXCEPT ![a] = o]
                                ELSE rw_account_org_map
                          /\ rw_row' = [request |-> "row", is_campaign |-> is_campaign,
                                        ts |-> t, account_id |-> a, org_id |-> o,
                                        asn |-> chosen_asn]
                          /\ rw_count' = rw_count + 1
                          /\ rw_pc' = rw_pc
    /\ UNCHANGED <<rw_c0, rw_plan, rw_campaigns>>
    /\ UNCHANGED RWOthers

RWNext ==
    \/ RWBuildCampaignPlan
    \/ RWGenerateRow

SpecRows == RWInit /\ [][RWNext]_vars

(* C11: build_campaign_plan builds the plan from the first campaign of the
   configuration whose enabled flag is true; the plan is disabled, and no
   row is campaign-attributed, only when no configured campaign is
   enabled. *)
C11_FirstEnabledCampaign ==
    rw_pc # "plan" =>
        /\ rw_plan.enabled <=> \E i \in DOMAIN rw_campaigns : rw_campaigns[i]
        /\ (rw_row # NoRow /\ rw_row.is_campaign) => rw_plan.enabled

(* C17: once a campaign row has set the organization of an account to o,
   every later row generated for that account in the run, campaign or
   baseline, carries o.  Stated for a campaign row and the row that
   follows it. *)
C17_OrgFixedAfterOverride ==
    [][(/\ rw_row # NoRow
        /\ rw_row.is_campaign
        /\ rw_count' = rw_count + 1
        /\ rw_row'.account_id = rw_row.account_id)
       => rw_row'.org_id = rw_row.org_id]_vars

(* C10: event row generation never raises because a pool used by a biased
   sampling step is empty: with an enabled plan and a positive campaign
   share, a row is still produced when the touched-account set, the
   touched-organization set or the wave list is empty, or when a focus
   bucket has no infrastructure node. *)
C10_NoRaiseOnEmptyPool ==
    rw_pc = "IndexError" => ~(rw_plan.enabled /\ rw_plan.share_of_rows > 0)

(***************************************************************************)
(* generate_dataset.py: main run twice with one seed and one               *)
(* configuration.  random.Random(seed) is a deterministic generator: its   *)
(* state after n draws is a function of the seed.  uuid.uuid4() reads the  *)
(* operating system's entropy and takes no seed; each call returns any     *)
(* identifier.  The plan is disabled; a row keeps an identifier column and *)
(* a column drawn from rng.                                                *)
(***************************************************************************)
Uuid4 == {"u1", "u2"}

\* random.Random(seed)
Seeded(seed) == seed % RngMod

\* the state after one draw
Drawn(state) == (5 * state + 3) % RngMod

\* rng.choice(pool) over the pool 1 .. n
Choice(state, n) == (state % n) + 1

RPOthers == <<cwVars, dmVars, dnVars, idVars, mnVars, rwVars, paVars, btVars, dvVars, deVars, anVars, dsVars, ptVars, acVars, cpVars>>

RPInit ==
    /\ CPIdle
    /\ ACIdle
    /\ PTIdle
    /\ DSIdle
    /\ ANIdle
    /\ DEIdle
    /\ DVIdle
    /\ BTIdle
    /\ PAIdle
    /\ CWIdle
    /\ DMIdle
    /\ DNIdle
    /\ IDIdle
    /\ MNIdle
    /\ RWIdle
    /\ rp_run = 1
    /\ rp_pc = "sessions"
    /\ rp_seed \in 0..MaxSeed
    /\ rp_sess_enabled \in BOOLEAN
    /\ rp_total_rows \in 0..MaxTotalRows
    /\ rp_rng = Seeded(rp_seed)
    /\ rp_acct = 1
    /\ rp_sessions = [r \in {1, 2} |-> <<>>]
    /\ rp_requests = [r \in {1, 2} |-> <<>>]

\* for acct in account_ids: if rng.random() < 0.55: a session row with
\* sid = f"sess_{uuid.uuid4().hex[:16]}" and fields drawn from rng
RPSessionRow ==
    /\ rp_pc = "sessions"
    /\ rp_sess_enabled
    /\ rp_acct <= Cardinality(RowAccountIds)
    /\ IF 100 * rp_rng < 55 * RngMod
       THEN \E sid \in Uuid4 :
              /\ rp_sessions' = [rp_sessions EXCEPT ![rp_run] =
                     Append(@, [session_id |-> sid, account_id |-> rp_acct,
                                auth_strength |-> Choice(Drawn(rp_rng), 3)])]
              /\ rp_rng' = Drawn(Drawn(rp_rng))
       ELSE /\ rp_sessions' = rp_sessions
            /\ rp_rng' = Drawn(rp_rng)
    /\ rp_acct' = rp_acct + 1
    /\ UNCHANGED <<rp_run, rp_pc, rp_seed, rp_sess_enabled, rp_total_rows, rp_requests>>
    /\ UNCHANGED RPOthers

\* write_parquet(sess_path, ...), or sessions not enabled
RPWriteSessions ==
    /\ rp_pc = "sessions"
    /\ ~rp_sess_enabled \/ rp_acct > Cardinality(RowAccountIds)
    /\ rp_pc' = "requests"
    /\ UNCHANGED <<rp_run, rp_seed, rp_sess_enabled, rp_total_rows, rp_rng, rp_acct,
                   rp_sessions, rp_requests>>
    /\ UNCHANGED RPOthers

\* one row of llm_batches: rid = f"req_{uuid.uuid4().hex}", a = rng.choice(account_ids)
RPRequestRow ==
    /\ rp_pc = "requests"
    /\ Len(rp_requests[rp_run]) < rp_total_rows
    /\ \E rid \in Uuid4 :
         rp_requests' = [rp_requests EXCEPT ![rp_run] =
             Append(@, [request_id |-> rid,
                        account_id |-> Choice(rp_rng, Cardinality(RowAccountIds))])]
    /\ rp_rng' = Drawn(rp_rng)
    /\ UNCHANGED <<rp_run, rp_pc, rp_seed, rp_sess_enabled, rp_total_rows, rp_acct,
                   rp_sessions>>
    /\ UNCHANGED RPOthers

\* the run ends; the second run starts from random.Random(seed) again
RPFinishRun ==
    /\ rp_pc = "requests"
    /\ Len(rp_requests[rp_run]) = rp_total_rows
    /\ IF rp_run = 1
       THEN /\ rp_run' = 2
            /\ rp_pc' = "sessions"
            /\ rp_rng' = Seeded(rp_seed)
            /\ rp_acct' = 1
       ELSE /\ rp_pc' = "done"
            /\ UNCHANGED <<rp_run, rp_rng, rp_acct>>
    /\ UNCHANGED <<rp_seed, rp_sess_enabled, rp_total_rows, rp_sessions, rp_requests>>
    /\ UNCHANGED RPOthers

RPNext ==
    \/ RPSessionRow
    \/ RPWriteSessions
    \/ RPRequestRow
    \/ RPFinishRun

SpecRepeat == RPInit /\ [][RPNext]_vars

\* the columns of the two runs that are drawn from rng agree
RPSeededColumnsAgree ==
    rp_pc = "done" =>
        /\ Len(rp_sessions[1]) = Len(rp_sessions[2])
        /\ Len(rp_requests[1]) = Len(rp_requests[2])
        /\ \A i \in DOMAIN rp_sessions[1] :
               /\ rp_sessions[1][i].account_id = rp_sessions[2][i].account_id
               /\ rp_sessions[1][i].auth_strength = rp_sessions[2][i].auth_strength
        /\ \A i \in DOMAIN rp_requests[1] :
               rp_requests[1][i].account_id = rp_requests[2][i].account_id

(* C1: running main twice with the same seed and the same configuration
   yields identical output tables, row for row and column for column,
   including the request_id column of llm_requests and the session_id
   column of sessions. *)
C1_SameSeedSameTables ==
    rp_pc = "done" =>
        /\ rp_sessions[1] = rp_sessions[2]
        /\ rp_requests[1] = rp_requests[2]

(***************************************************************************)
(* generate_dataset.py: pick_asn over every infrastructure pool.           *)
(***************************************************************************)
\* the rows dims["enrichment_ip"] can hold: any of a hosting and a
\* residential node
PoolChoices == SUBSET EnrichmentRows

\* the labels of infra.baseline_asn_type_probs
BaselineTypeChoices == {{}, {"vpn"}, {"residential", "hosting"}}

PAOthers == <<cwVars, dmVars, dnVars, idVars, mnVars, rwVars, rpVars, btVars, dvVars, deVars, anVars, dsVars, ptVars, acVars, cpVars>>

PAInit ==
    /\ CPIdle
    /\ ACIdle
    /\ PTIdle
    /\ DSIdle
    /\ ANIdle
    /\ DEIdle
    /\ DVIdle
    /\ BTIdle
    /\ CWIdle
    /\ DMIdle
    /\ DNIdle
    /\ IDIdle
    /\ MNIdle
    /\ RWIdle
    /\ RPIdle
    /\ pa_pc = "call"
    /\ pa_rows \in PoolChoices
    /\ pa_baseline_types \in BaselineTypeChoices
    /\ \E enabled \in BOOLEAN, focus \in FocusLists :
         pa_plan = [EmptyPlan EXCEPT !.enabled = enabled,
                                     !.focus_provider_buckets = focus]
    /\ pa_is_campaign \in BOOLEAN
    /\ pa_res = [raised |-> FALSE]

\* chosen_asn, _atype = pick_asn(is_campaign)
PACall ==
    /\ pa_pc = "call"
    /\ pa_res' \in pick_asn(pa_is_campaign, pa_plan, pa_rows, pa_baseline_types)
    /\ pa_pc' = IF pa_res'.raised THEN "IndexError" ELSE "returned"
    /\ UNCHANGED <<pa_rows, pa_baseline_types, pa_plan, pa_is_campaign>>
    /\ UNCHANGED PAOthers

PANext == PACall

SpecPickAsn == PAInit /\ [][PANext]_vars

\* the call took the campaign branch and found no node in a focus bucket
PAFocusEmpty ==
    /\ pa_pc # "call"
    /\ pa_is_campaign /\ pa_plan.enabled
    /\ pa_res.pb = "" \/ by_provider_bucket(pa_rows, pa_res.pb) = {}

(* C12, as claimed: for a campaign row whose focus-bucket candidate set is
   empty the node is drawn from the nodes of the type drawn for the row; if
   that set is empty as well, from the full pool with the fixed default
   label; the selection never fails while the pool is non-empty. *)
C12_TwoStepFallback ==
    (PAFocusEmpty /\ pa_rows # {}) =>
        /\ ~pa_res.raised
        /\ IF by_asn_type(pa_rows, pa_res.t) # {}
           THEN pa_res.asn \in by_asn_type(pa_rows, pa_res.t) /\ pa_res.label = pa_res.t
           ELSE pa_res.asn \in asns(pa_rows) /\ pa_res.label = "residential"

(* C12, amended: after an empty focus bucket the node is drawn from the
   nodes of the type drawn for the row; if there is none, a baseline type is
   drawn and the node comes from the nodes of that type, labelled with it;
   only if there is none either does it come from the full pool with the
   label "residential".  The call raises only in the baseline step: on an
   empty baseline mapping, or on an empty pool. *)
C12_ThreeStepFallback ==
    PAFocusEmpty =>
        IF by_asn_type(pa_rows, pa_res.t) # {}
        THEN /\ ~pa_res.raised
             /\ pa_res.asn \in by_asn_type(pa_rows, pa_res.t)
             /\ pa_res.label = pa_res.t
        ELSE IF pa_baseline_types = {}
        THEN pa_res.raised
        ELSE IF by_asn_type(pa_rows, pa_res.tb) # {}
        THEN /\ ~pa_res.raised
             /\ pa_res.asn \in by_asn_type(pa_rows, pa_res.tb)
             /\ pa_res.label = pa_res.tb
        ELSE IF pa_rows # {}
        THEN /\ ~pa_res.raised
             /\ pa_res.asn \in asns(pa_rows)
             /\ pa_res.label = "residential"
        ELSE pa_res.raised

\* a focus bucket without a node and a type without a node: the node comes
\* from the baseline type's nodes
C12_Witness ==
    /\ PAFocusEmpty
    /\ pa_res.pb = "cloud_z"
    /\ by_asn_type(pa_rows, pa_res.t) = {}
    /\ ~pa_res.raised
    /\ pa_res.label = pa_res.tb
    /\ pa_res.tb # "residential"

(***************************************************************************)
(* generate_dataset.py: the row count of llm_requests and its batches.     *)
(***************************************************************************)
\* args.rows: None, or the integer given
RowsArgs ==
    {[given |-> FALSE, value |-> 0]} \cup
    {[given |-> TRUE, value |-> n] : n \in 0..MaxRowCount}

\* args.rows or cfg["generation"]["total_rows"]: None and 0 are falsy
RowsOr(rows_arg, cfg_total) ==
    IF rows_arg.given /\ rows_arg.value # 0 THEN rows_arg.value ELSE cfg_total

\* the override taken whenever it is given
RowsOrIfGiven(rows_arg, cfg_total) ==
    IF rows_arg.given THEN rows_arg.value ELSE cfg_total

\* math.ceil(total_rows / batch_size)
CeilDiv(n, d) == (n + d - 1) \div d

\* n = batch_size if b < batches - 1 else total_rows - batch_size * (batches - 1),
\* b counted from 0
BatchRows(b, batches, total_rows) ==
    IF b < batches - 1 THEN batch_size ELSE total_rows - batch_size * (batches - 1)

BTOthers == <<cwVars, dmVars, dnVars, idVars, mnVars, rwVars, rpVars, paVars, dvVars, deVars, anVars, dsVars, ptVars, acVars, cpVars>>

BTInit ==
    /\ CPIdle
    /\ ACIdle
    /\ PTIdle
    /\ DSIdle
    /\ ANIdle
    /\ DEIdle
    /\ DVIdle
    /\ CWIdle
    /\ DMIdle
    /\ DNIdle
    /\ IDIdle
    /\ MNIdle
    /\ RWIdle
    /\ RPIdle
    /\ PAIdle
    /\ bt_pc = "args"
    /\ bt_rows_arg \in RowsArgs
    /\ bt_cfg_total \in 0..MaxRowCount
    /\ bt_total_rows = 0
    /\ bt_batches = 0
    /\ bt_b = 0
    /\ bt_sizes = <<>>

\* total_rows = int(args.rows or ...); batches = math.ceil(total_rows / batch_size)
BTReadTotal ==
    /\ bt_pc = "args"
    /\ bt_total_rows' = RowsOr(bt_rows_arg, bt_cfg_total)
    /\ bt_batches' = CeilDiv(bt_total_rows', batch_size)
    /\ bt_pc' = "batches"
    /\ UNCHANGED <<bt_rows_arg, bt_cfg_total, bt_b, bt_sizes>>
    /\ UNCHANGED BTOthers

\* for b in range(batches): a batch of n rows is generated and written
BTWriteBatch ==
    /\ bt_pc = "batches"
    /\ bt_b < bt_batches
    /\ bt_sizes' = Append(bt_sizes, BatchRows(bt_b, bt_batches, bt_total_rows))
    /\ bt_b' = bt_b + 1
    /\ UNCHANGED <<bt_pc, bt_rows_arg, bt_cfg_total, bt_total_rows, bt_batches>>
    /\ UNCHANGED BTOthers

\* the generator is exhausted and the writer closed
BTClose ==
    /\ bt_pc = "batches"
    /\ bt_b = bt_batches
    /\ bt_pc' = "done"
    /\ UNCHANGED <<bt_rows_arg, bt_cfg_total, bt_total_rows, bt_batches, bt_b, bt_sizes>>
    /\ UNCHANGED BTOthers

BTNext ==
    \/ BTReadTotal
    \/ BTWriteBatch
    \/ BTClose

SpecBatches == BTInit /\ [][BTNext]_vars

RECURSIVE SumSeq(_)
SumSeq(q) == IF q = <<>> THEN 0 ELSE Head(q) + SumSeq(Tail(q))

\* the batches hold at most batch_size rows each and total_rows together
BTBatchesSumToTotal ==
    bt_pc = "done" =>
        /\ SumSeq(bt_sizes) = bt_total_rows
        /\ \A i \in DOMAIN bt_sizes : bt_sizes[i] >= 1 /\ bt_sizes[i] <= batch_size

(* C13: llm_requests contains exactly N rows, where N is the row-count
   override whenever one is given (any value, including 0) and the
   configured total_rows otherwise; the rows are emitted in batches of at
   most batch_size rows whose sizes sum to N. *)
C13_ExactRowsOverride ==
    bt_pc = "done" =>
        /\ SumSeq(bt_sizes) = RowsOrIfGiven(bt_rows_arg, bt_cfg_total)
        /\ \A i \in DOMAIN bt_sizes : bt_sizes[i] <= batch_size

(***************************************************************************)
(* generate_dataset.py: moderation_batches and rate_limit_batches, the     *)
(* passes over the llm_requests file.  Both read the row groups in order   *)
(* and, inside one, the rows in order; the model walks the rows.           *)
(***************************************************************************)
\* the columns of a row of llm_requests the passes read, but request_id,
\* which is set from the row's position
PrimaryRowChoices ==
    {[ts |-> 0, asn |-> 64500, account_id |-> "acct_1", is_automation_suspected |-> FALSE],
     [ts |-> 1, asn |-> 64501, account_id |-> "acct_2", is_automation_suspected |-> TRUE],
     [ts |-> 1, asn |-> 64500, account_id |-> "acct_1", is_automation_suspected |-> TRUE]}

\* the labels of moderation.baseline_action_probs and campaign_action_probs
PolicyActions == {"allow", "warn", "block"}

PrimaryRow(i, c) ==
    [request_id |-> i, ts |-> c.ts, asn |-> c.asn, account_id |-> c.account_id,
     is_automation_suspected |-> c.is_automation_suspected]

\* a moderation row that keeps the request id and loses the timestamp
ModerationRowNoTs(row, a) ==
    [request_id |-> row.request_id, ts |-> 0, policy_action |-> a]

\* out_req.append(rid); out_ts.append(ts0); act.append(a)
ModerationRow(row, a) ==
    [request_id |-> row.request_id, ts |-> row.ts, policy_action |-> a]

\* out_ts.append(ts0); out_asn.append(int(a)); out_acct.append("" if infra_scope else str(acct))
RateLimitRow(row, infra_scope) ==
    [ts |-> row.ts, asn |-> row.asn,
     account_id |-> IF infra_scope THEN "" ELSE row.account_id]

DVOthers == <<cwVars, dmVars, dnVars, idVars, mnVars, rwVars, rpVars, paVars, btVars, deVars, anVars, dsVars, ptVars, acVars, cpVars>>

DVInit ==
    /\ CPIdle
    /\ ACIdle
    /\ PTIdle
    /\ DSIdle
    /\ ANIdle
    /\ DEIdle
    /\ CWIdle
    /\ DMIdle
    /\ DNIdle
    /\ IDIdle
    /\ MNIdle
    /\ RWIdle
    /\ RPIdle
    /\ PAIdle
    /\ BTIdle
    /\ dv_pc = "llm"
    /\ dv_rl_enabled \in BOOLEAN
    /\ dv_llm = <<>>
    /\ dv_mod = <<>>
    /\ dv_rl = <<>>
    /\ dv_i = 0

\* llm_batches: one more row of llm_requests
DVWriteRequest ==
    /\ dv_pc = "llm"
    /\ Len(dv_llm) < MaxPrimaryRows
    /\ \E c \in PrimaryRowChoices :
         dv_llm' = Append(dv_llm, PrimaryRow(Len(dv_llm) + 1, c))
    /\ UNCHANGED <<dv_pc, dv_rl_enabled, dv_mod, dv_rl, dv_i>>
    /\ UNCHANGED DVOthers

\* llm_reader = pq.ParquetFile(llm_path)
DVOpenReader ==
    /\ dv_pc = "llm"
    /\ dv_pc' = "moderation"
    /\ dv_i' = 1
    /\ UNCHANGED <<dv_rl_enabled, dv_llm, dv_mod, dv_rl>>
    /\ UNCHANGED DVOthers

\* moderation_batches: one pass of the loop over zip(reqs, tss, autos)
DVModerateRow ==
    /\ dv_pc = "moderation"
    /\ dv_i <= Len(dv_llm)
    /\ \E a \in PolicyActions : dv_mod' = Append(dv_mod, ModerationRow(dv_llm[dv_i], a))
    /\ dv_i' = dv_i + 1
    /\ UNCHANGED <<dv_pc, dv_rl_enabled, dv_llm, dv_rl>>
    /\ UNCHANGED DVOthers

\* moderation_events is written; if rl_enabled the second pass starts
DVWriteModeration ==
    /\ dv_pc = "moderation"
    /\ dv_i > Len(dv_llm)
    /\ dv_pc' = IF dv_rl_enabled THEN "rate_limits" ELSE "done"
    /\ dv_i' = 1
    /\ UNCHANGED <<dv_rl_enabled, dv_llm, dv_mod, dv_rl>>
    /\ UNCHANGED DVOthers

\* rate_limit_batches: one pass of the loop over zip(tss, asn_vals, acct_vals, autos);
\* infra_scope = auto and (rng.random() < 0.35)
DVRateLimitRow ==
    /\ dv_pc = "rate_limits"
    /\ dv_i <= Len(dv_llm)
    /\ \E admitted \in BOOLEAN,
          infra_scope \in {FALSE, dv_llm[dv_i].is_automation_suspected} :
         dv_rl' = IF admitted
                  THEN Append(dv_rl, RateLimitRow(dv_llm[dv_i], infra_scope))
                  ELSE dv_rl
    /\ dv_i' = dv_i + 1
    /\ UNCHANGED <<dv_pc, dv_rl_enabled, dv_llm, dv_mod>>
    /\ UNCHANGED DVOthers

\* rate_limit_events is written
DVWriteRateLimits ==
    /\ dv_pc = "rate_limits"
    /\ dv_i > Len(dv_llm)
    /\ dv_pc' = "done"
    /\ UNCHANGED <<dv_rl_enabled, dv_llm, dv_mod, dv_rl, dv_i>>
    /\ UNCHANGED DVOthers

DVNext ==
    \/ DVWriteRequest
    \/ DVOpenReader
    \/ DVModerateRow
    \/ DVWriteModeration
    \/ DVRateLimitRow
    \/ DVWriteRateLimits

SpecDerived == DVInit /\ [][DVNext]_vars

\* the derived tables at the end of the run
DVDerivedRowsFromPrimary ==
    dv_pc = "done" =>
        /\ Len(dv_mod) = Len(dv_llm)
        /\ \A i \in DOMAIN dv_llm :
              /\ dv_mod[i].request_id = dv_llm[i].request_id
              /\ dv_mod[i].ts = dv_llm[i].ts
        /\ \A j \in DOMAIN dv_rl :
              \E i \in DOMAIN dv_llm :
                 /\ dv_rl[j].ts = dv_llm[i].ts
                 /\ dv_rl[j].asn = dv_llm[i].asn
                 /\ dv_rl[j].account_id \in {dv_llm[i].account_id, ""}

(* C14: moderation_events holds exactly one row per row of llm_requests,
   with that row's request_id and timestamp; every rate-limit row carries
   the timestamp and ASN of some primary row and that row's account id or
   the empty string; neither derived pass changes or adds a primary row. *)
C14_DerivedPasses ==
    /\ []DVDerivedRowsFromPrimary
    /\ [][dv_pc # "llm" => dv_llm' = dv_llm]_vars

\* both passes ran over two rows; one rate-limit row is infra-scoped, one not
C14_Witness ==
    /\ dv_pc = "done"
    /\ Len(dv_llm) >= 2
    /\ \E j, k \in DOMAIN dv_rl : dv_rl[j].account_id = "" /\ dv_rl[k].account_id # ""

(***************************************************************************)
(* generate_dataset.py: build_dimension_tables, the devices table.  A row  *)
(* keeps the columns the traits decide; os_family is drawn for every       *)
(* device alike and left out.                                              *)
(***************************************************************************)
browser_families == <<"chrome", "firefox", "safari", "edge", "headless">>

\* mix.suspicious and the three rates of suspicious_device_traits, each
\* never, sometimes or always above the draw
DeviceRateChoices ==
    [suspicious : {0, 2, DrawDen}, headless_rate : {0, 2, DrawDen},
     webdriver_rate : {0, DrawDen}, low_entropy_ua_rate : {0, DrawDen}]

\* rng.random() < rate, over the draws k / DrawDen
Below(rate) == {k < rate : k \in 0..(DrawDen - 1)}

\* rng.choice(browser_families[:-1])
PlainBrowsers == {browser_families[i] : i \in 1..(Len(browser_families) - 1)}

DeviceRow(susp, headless, browser, webdriver, low) ==
    [is_suspicious_device |-> susp, is_headless |-> headless,
     browser_family |-> browser, has_webdriver |-> webdriver,
     low_entropy_ua |-> low]

\* a loop body that draws the traits without looking at susp
DeviceRowsTraitsForAll(susp, rates) ==
    {DeviceRow(susp, h, b, w, l) :
        h \in Below(rates.headless_rate), b \in PlainBrowsers,
        w \in Below(rates.webdriver_rate), l \in Below(rates.low_entropy_ua_rate)}

\* the rows one pass of `for susp in is_suspicious` can append
DeviceRows(susp, rates) ==
    IF susp
    THEN UNION {
           {DeviceRow(TRUE, h, IF h THEN "headless" ELSE b, w, l) :
               b \in PlainBrowsers,
               w \in Below(rates.webdriver_rate),
               l \in Below(rates.low_entropy_ua_rate)}
           : h \in Below(rates.headless_rate)}
    ELSE {DeviceRow(FALSE, FALSE, b, FALSE, FALSE) : b \in PlainBrowsers}

DEOthers == <<cwVars, dmVars, dnVars, idVars, mnVars, rwVars, rpVars, paVars, btVars, dvVars, anVars, dsVars, ptVars, acVars, cpVars>>

DEInit ==
    /\ CPIdle
    /\ ACIdle
    /\ PTIdle
    /\ DSIdle
    /\ ANIdle
    /\ CWIdle
    /\ DMIdle
    /\ DNIdle
    /\ IDIdle
    /\ MNIdle
    /\ RWIdle
    /\ RPIdle
    /\ PAIdle
    /\ BTIdle
    /\ DVIdle
    /\ de_pc = "suspicious"
    /\ de_count \in 0..MaxDevices
    /\ de_rates \in DeviceRateChoices
    /\ de_is_suspicious = <<>>
    /\ de_devices = <<>>

\* is_suspicious = [rng.random() < mix.suspicious for _ in range(dev_count)]
DEDrawSuspicious ==
    /\ de_pc = "suspicious"
    /\ de_is_suspicious' \in [1..de_count -> Below(de_rates.suspicious)]
    /\ de_pc' = "traits"
    /\ UNCHANGED <<de_count, de_rates, de_devices>>
    /\ UNCHANGED DEOthers

\* for susp in is_suspicious: the five appends
DEBuildDevice ==
    /\ de_pc = "traits"
    /\ Len(de_devices) < Len(de_is_suspicious)
    /\ \E row \in DeviceRows(de_is_suspicious[Len(de_devices) + 1], de_rates) :
         de_devices' = Append(de_devices, row)
    /\ UNCHANGED <<de_pc, de_count, de_rates, de_is_suspicious>>
    /\ UNCHANGED DEOthers

\* devices = pa.table({...})
DEBuildTable ==
    /\ de_pc = "traits"
    /\ Len(de_devices) = Len(de_is_suspicious)
    /\ de_pc' = "done"
    /\ UNCHANGED <<de_count, de_rates, de_is_suspicious, de_devices>>
    /\ UNCHANGED DEOthers

DENext ==
    \/ DEDrawSuspicious
    \/ DEBuildDevice
    \/ DEBuildTable

SpecDevices == DEInit /\ [][DENext]_vars

(* C15: for every device of build_dimension_tables and for all trait
   rates, is_suspicious_device = false implies is_headless = false,
   has_webdriver = false, low_entropy_ua = false and a browser_family other
   than "headless". *)
C15_PlainDeviceHasNoTrait ==
    \A i \in DOMAIN de_devices :
        ~de_devices[i].is_suspicious_device =>
            /\ ~de_devices[i].is_headless
            /\ ~de_devices[i].has_webdriver
            /\ ~de_devices[i].low_entropy_ua
            /\ de_devices[i].browser_family # "headless"

\* every trait rate is 1 and the table holds a plain and a suspicious device
C15_Witness ==
    /\ de_pc = "done"
    /\ de_rates.headless_rate = DrawDen
    /\ de_rates.webdriver_rate = DrawDen
    /\ de_rates.low_entropy_ua_rate = DrawDen
    /\ \E i, j \in DOMAIN de_devices :
         /\ ~de_devices[i].is_suspicious_device
         /\ de_devices[j].is_suspicious_device /\ de_devices[j].is_headless

(***************************************************************************)
(* generate_dataset.py: build_dimension_tables, the enrichment_ip table.   *)
(* A row keeps asn, asn_type, provider_category and provider_brand_bucket. *)
(***************************************************************************)
AsnBase == 65000

\* the keys infra.asn_pool_sizes can have; vpn is a type the code names no
\* category list for
AsnTypes == {"residential", "corporate", "hosting", "vpn"}

\* asn_pool_sizes.items(): up to two entries with distinct keys
PoolSizeChoices ==
    {<<>>} \cup
    {<< <<t, c>> >> : t \in AsnTypes, c \in 0..MaxTypeCount} \cup
    {q \in {<< <<t1, c1>>, <<t2, c2>> >> :
                t1 \in AsnTypes, t2 \in AsnTypes, c1 \in 0..MaxTypeCount,
                c2 \in 0..MaxTypeCount} : q[1][1] # q[2][1]}

\* infra.provider_brand_buckets: complete, without the key vps_hosting, and
\* with an empty list for vpn_service
BrandChoices ==
    {[residential_isp |-> <<"isp_a", "isp_b">>, enterprise_egress |-> <<"ent_a">>,
      cloud_datacenter |-> <<"cloud_a", "cloud_b">>, vps_hosting |-> <<"vps_a">>,
      vpn_service |-> <<"vpn_a">>],
     [residential_isp |-> <<"isp_a", "isp_b">>, enterprise_egress |-> <<"ent_a">>,
      cloud_datacenter |-> <<"cloud_a", "cloud_b">>, vpn_service |-> <<"vpn_a">>],
     [residential_isp |-> <<"isp_a", "isp_b">>, enterprise_egress |-> <<"ent_a">>,
      cloud_datacenter |-> <<"cloud_a", "cloud_b">>, vps_hosting |-> <<"vps_a">>,
      vpn_service |-> <<>>]}

\* the category lists without the corporate branch
CategoriesNoCorporate(asn_type) ==
    IF asn_type = "residential" THEN {"residential_isp"}
    ELSE IF asn_type = "hosting" THEN {"cloud_datacenter", "vps_hosting"}
    ELSE {"vpn_service"}

\* categories of gen_asn_type_rows
Categories(asn_type) ==
    IF asn_type = "residential" THEN {"residential_isp"}
    ELSE IF asn_type = "corporate" THEN {"enterprise_egress"}
    ELSE IF asn_type = "hosting" THEN {"cloud_datacenter", "vps_hosting"}
    ELSE {"vpn_service"}

ANOthers == <<cwVars, dmVars, dnVars, idVars, mnVars, rwVars, rpVars, paVars, btVars, dvVars, deVars, dsVars, ptVars, acVars, cpVars>>

ANInit ==
    /\ CPIdle
    /\ ACIdle
    /\ PTIdle
    /\ DSIdle
    /\ CWIdle
    /\ DMIdle
    /\ DNIdle
    /\ IDIdle
    /\ MNIdle
    /\ RWIdle
    /\ RPIdle
    /\ PAIdle
    /\ BTIdle
    /\ DVIdle
    /\ DEIdle
    /\ an_pc = "items"
    /\ an_pool_sizes \in PoolSizeChoices
    /\ an_provider_brand \in BrandChoices
    /\ an_t = 0
    /\ an_left = 0
    /\ an_asn_base = AsnBase
    /\ an_rows = <<>>

\* for asn_type, count in asn_pool_sizes.items(): gen_asn_type_rows(asn_type, int(count))
ANNextType ==
    /\ an_pc = "items"
    /\ an_left = 0
    /\ an_t < Len(an_pool_sizes)
    /\ an_t' = an_t + 1
    /\ an_left' = an_pool_sizes[an_t + 1][2]
    /\ UNCHANGED <<an_pc, an_pool_sizes, an_provider_brand, an_asn_base, an_rows>>
    /\ UNCHANGED ANOthers

\* one pass of `for _ in range(int(count))`: provider_brand[provider_category]
\* raises KeyError on a missing key, rng.choice IndexError on an empty list
ANGenRow ==
    /\ an_pc = "items"
    /\ an_left > 0
    /\ an_asn_base' = an_asn_base + 1
    /\ \E provider_category \in Categories(an_pool_sizes[an_t][1]) :
         IF provider_category \notin DOMAIN an_provider_brand
         THEN an_pc' = "KeyError" /\ UNCHANGED <<an_left, an_rows>>
         ELSE IF an_provider_brand[provider_category] = <<>>
         THEN an_pc' = "IndexError" /\ UNCHANGED <<an_left, an_rows>>
         ELSE \E i \in DOMAIN an_provider_brand[provider_category] :
                /\ an_rows' = Append(an_rows,
                       [asn |-> an_asn_base', asn_type |-> an_pool_sizes[an_t][1],
                        provider_category |-> provider_category,
                        provider_brand_bucket |-> an_provider_brand[provider_category][i]])
                /\ an_left' = an_left - 1
                /\ an_pc' = an_pc
    /\ UNCHANGED <<an_pool_sizes, an_provider_brand, an_t>>
    /\ UNCHANGED ANOthers

\* enrichment_ip = pa.Table.from_pylist(asn_rows)
ANBuildTable ==
    /\ an_pc = "items"
    /\ an_left = 0
    /\ an_t = Len(an_pool_sizes)
    /\ an_pc' = "done"
    /\ UNCHANGED <<an_pool_sizes, an_provider_brand, an_t, an_left, an_asn_base, an_rows>>
    /\ UNCHANGED ANOthers

ANNext ==
    \/ ANNextType
    \/ ANGenRow
    \/ ANBuildTable

SpecEnrichment == ANInit /\ [][ANNext]_vars

(* C16: every infrastructure node has a provider_category in the allowed
   set of its asn_type (residential: residential_isp; corporate:
   enterprise_egress; hosting: cloud_datacenter or vps_hosting; any other
   type: vpn_service) and a provider_brand_bucket that is a member of the
   configured bucket list of that provider_category. *)
C16_CategoryAndBucketOfType ==
    \A i \in DOMAIN an_rows :
        LET n == an_rows[i]
        IN  /\ n.asn_type = "residential" => n.provider_category = "residential_isp"
            /\ n.asn_type = "corporate" => n.provider_category = "enterprise_egress"
            /\ n.asn_type = "hosting" =>
                   n.provider_category \in {"cloud_datacenter", "vps_hosting"}
            /\ n.asn_type \notin {"residential", "corporate", "hosting"} =>
                   n.provider_category = "vpn_service"
            /\ n.provider_category \in DOMAIN an_provider_brand
            /\ \E j \in DOMAIN an_provider_brand[n.provider_category] :
                   an_provider_brand[n.provider_category][j] = n.provider_brand_bucket

\* the table holds a corporate node and a node of a type without a list
C16_Witness ==
    /\ an_pc = "done"
    /\ \E i, j \in DOMAIN an_rows :
         /\ an_rows[i].asn_type = "corporate"
         /\ an_rows[j].asn_type = "vpn"

(***************************************************************************)
(* generate_dns_events.py: the heuristic flags and the score.              *)
(* A row keeps the columns the scoring reads or writes; computed is the    *)
(* flags score_domain returned for the row and noise the flags the noise   *)
(* injection chose for it ({} when the row was not selected), neither of   *)
(* which the table keeps.  Entropies are in thousandths of a bit.          *)
(***************************************************************************)
ScoredBenignDomains == {"google.com", "stackoverflow.com"}

ScoredMaliciousDomains == {"secure-k3x9q2ab.xyz"}

\* tld = base_domain.split(".")[-1]
TldOf(d) == IF d = "secure-k3x9q2ab.xyz" THEN "xyz" ELSE "com"

\* shannon_entropy of the domain without its dots
shannon_entropy(d) ==
    CASE d = "google.com" -> 2419
      [] d = "stackoverflow.com" -> 3578
      [] d = "secure-k3x9q2ab.xyz" -> 3948

KeywordPool == {"flow", "secure"}

\* has_keyword: some keyword is a substring of the domain
has_keyword(d, keywords) ==
    \/ d = "stackoverflow.com" /\ "flow" \in keywords
    \/ d = "secure-k3x9q2ab.xyz" /\ "secure" \in keywords

\* dict.get(key, default)
Get(mapping, key, default) == IF key \in DOMAIN mapping THEN mapping[key] ELSE default

FlagNames == {"suspicious_tld", "keyword_hit", "high_entropy"}

\* int(suspicious_tld) * w + int(keyword_hit) * w + int(high_entropy) * w
PartialScore(flags, weights) ==
    (IF flags.suspicious_tld THEN Get(weights, "suspicious_tld", 2) ELSE 0)
    + (IF flags.keyword_hit THEN Get(weights, "keyword_hit", 3) ELSE 0)
    + (IF flags.high_entropy THEN Get(weights, "high_entropy", 1) ELSE 0)

score_domain(base_domain, tld, suspicious_tlds, keyword_indicators, entropy_threshold) ==
    [suspicious_tld |-> tld \in suspicious_tlds,
     keyword_hit |-> has_keyword(base_domain, keyword_indicators),
     high_entropy |-> shannon_entropy(base_domain) > entropy_threshold]

\* the noise injection: every chosen flag is set to True
NoiseFlags(flags, noise) ==
    [f \in FlagNames |-> flags[f] \/ f \in noise]

\* rng.choice(flag names, size = rng.integers(1, 3), replace = False)
NoiseChoices == {n \in SUBSET FlagNames : Cardinality(n) \in 1..2}

ScoredRow(d, computed, flags, noise, score, mal) ==
    [base_domain |-> d, computed |-> computed, noise |-> noise,
     suspicious_tld |-> flags.suspicious_tld, keyword_hit |-> flags.keyword_hit,
     high_entropy |-> flags.high_entropy, rare_domain |-> FALSE,
     score |-> score, is_malicious |-> mal]

\* a noisy row that keeps the score computed before the injection
NoisyRowStaleScore(d, cfg, noise_flags) ==
    LET computed == score_domain(d, TldOf(d), cfg.suspicious_tlds,
                                 cfg.keyword_indicators, cfg.entropy_threshold)
    IN  ScoredRow(d, computed, NoiseFlags(computed, noise_flags), noise_flags,
                  PartialScore(computed, cfg.score_weights), FALSE)

\* a benign row selected for noise injection: the flags are overwritten and
\* score_partial is recalculated from them
NoisyRow(d, cfg, noise_flags) ==
    LET computed == score_domain(d, TldOf(d), cfg.suspicious_tlds,
                                 cfg.keyword_indicators, cfg.entropy_threshold)
        flags == NoiseFlags(computed, noise_flags)
    IN  ScoredRow(d, computed, flags, noise_flags,
                  PartialScore(flags, cfg.score_weights), FALSE)

TldChoices == {{}, {"xyz"}, {"com", "xyz"}}

EntropyThresholds == {3000, 3500}

\* score_weights: absent, given in part, given in full
WeightChoices ==
    {<<>>,
     [k \in {"keyword_hit"} |-> 5],
     [k \in FlagNames \cup {"rare_domain"} |->
         CASE k = "suspicious_tld" -> 1 [] k = "keyword_hit" -> 2
           [] k = "high_entropy" -> 4 [] k = "rare_domain" -> 8]}

DSOthers == <<cwVars, dmVars, dnVars, idVars, mnVars, rwVars, rpVars, paVars, btVars, dvVars, deVars, anVars, ptVars, acVars, cpVars>>

DSInit ==
    /\ CPIdle
    /\ ACIdle
    /\ PTIdle
    /\ CWIdle
    /\ DMIdle
    /\ DNIdle
    /\ IDIdle
    /\ MNIdle
    /\ RWIdle
    /\ RPIdle
    /\ PAIdle
    /\ BTIdle
    /\ DVIdle
    /\ DEIdle
    /\ ANIdle
    /\ ds_pc = "benign"
    /\ ds_cfg \in [read : {TRUE},
                   suspicious_tlds : TldChoices,
                   keyword_indicators : SUBSET KeywordPool,
                   entropy_threshold : EntropyThresholds,
                   score_weights : WeightChoices,
                   rare_domain_threshold : RareThresholds]
    /\ ds_rows = <<>>

\* one query of generate_benign_dns on which rng.random() >= benign_noise_rate
DSBenignQuery ==
    /\ ds_pc = "benign"
    /\ Len(ds_rows) < MaxScoreRows
    /\ \E d \in ScoredBenignDomains :
         LET flags == score_domain(d, TldOf(d), ds_cfg.suspicious_tlds,
                                   ds_cfg.keyword_indicators, ds_cfg.entropy_threshold)
         IN  ds_rows' = Append(ds_rows,
                 ScoredRow(d, flags, flags, {}, PartialScore(flags, ds_cfg.score_weights), FALSE))
    /\ UNCHANGED <<ds_pc, ds_cfg>>
    /\ UNCHANGED DSOthers

\* one query of generate_benign_dns selected for noise injection
DSBenignNoisyQuery ==
    /\ ds_pc = "benign"
    /\ Len(ds_rows) < MaxScoreRows
    /\ \E d \in ScoredBenignDomains, noise_flags \in NoiseChoices :
         ds_rows' = Append(ds_rows, NoisyRow(d, ds_cfg, noise_flags))
    /\ UNCHANGED <<ds_pc, ds_cfg>>
    /\ UNCHANGED DSOthers

DSBenignDone ==
    /\ ds_pc = "benign"
    /\ ds_pc' = "malicious"
    /\ UNCHANGED <<ds_cfg, ds_rows>>
    /\ UNCHANGED DSOthers

\* one iteration of generate_malicious_dns
DSMaliciousQuery ==
    /\ ds_pc = "malicious"
    /\ Len(ds_rows) < MaxScoreRows
    /\ \E d \in ScoredMaliciousDomains :
         LET flags == score_domain(d, TldOf(d), ds_cfg.suspicious_tlds,
                                   ds_cfg.keyword_indicators, ds_cfg.entropy_threshold)
         IN  ds_rows' = Append(ds_rows,
                 ScoredRow(d, flags, flags, {}, PartialScore(flags, ds_cfg.score_weights), TRUE))
    /\ UNCHANGED <<ds_pc, ds_cfg>>
    /\ UNCHANGED DSOthers

\* pass two of main: the rare_domain flag and its weight in the score
DSPassTwo ==
    /\ ds_pc = "malicious"
    /\ ds_rows # <<>>
    /\ ds_rows' = [r \in 1..Len(ds_rows) |->
          LET rare == Cardinality({j \in 1..Len(ds_rows) :
                                     ds_rows[j].base_domain = ds_rows[r].base_domain})
                          <= ds_cfg.rare_domain_threshold
          IN  [ds_rows[r] EXCEPT
                  !.rare_domain = rare,
                  !.score = @ + (IF rare THEN Get(ds_cfg.score_weights, "rare_domain", 1) ELSE 0)]]
    /\ ds_pc' = "done"
    /\ UNCHANGED ds_cfg
    /\ UNCHANGED DSOthers

DSNext ==
    \/ DSBenignQuery
    \/ DSBenignNoisyQuery
    \/ DSBenignDone
    \/ DSMaliciousQuery
    \/ DSPassTwo

SpecDnsScore == DSInit /\ [][DSNext]_vars

\* the weighted sum of the four flags of a row
WeightedSum(row, weights) ==
    PartialScore(row, weights)
    + (IF row.rare_domain THEN Get(weights, "rare_domain", 1) ELSE 0)

(* C21: in the final DNS table every row's score equals the weighted sum of
   its four flags, w_tld*suspicious_tld + w_keyword*keyword_hit +
   w_entropy*high_entropy + w_rare*rare_domain, for malicious rows, benign
   rows and benign rows altered by noise injection alike. *)
C21_ScoreIsWeightedSum ==
    ds_pc = "done" =>
        \A r \in 1..Len(ds_rows) :
            ds_rows[r].score = WeightedSum(ds_rows[r], ds_cfg.score_weights)

\* a final table with a malicious row and a rare benign row whose score the
\* noise injection raised
C21_Witness ==
    /\ ds_pc = "done"
    /\ \E r, q \in 1..Len(ds_rows) :
         /\ ds_rows[r].noise # {}
         /\ ds_rows[r].rare_domain
         /\ ds_rows[r].score > PartialScore(ds_rows[r].computed, ds_cfg.score_weights)
                                + Get(ds_cfg.score_weights, "rare_domain", 1) - 1
         /\ ds_rows[r].score > Get(ds_cfg.score_weights, "rare_domain", 1)
         /\ PartialScore(ds_rows[r], ds_cfg.score_weights)
                # PartialScore(ds_rows[r].computed, ds_cfg.score_weights)
         /\ ds_rows[q].is_malicious
         /\ ds_rows[q].score > 0

\* the heuristic flags of a row whose value differs from the computed one
Flipped(row) == {f \in FlagNames : row[f] # row.computed[f]}

(* C22: when a benign DNS row is selected for noise injection, the value of
   at least one and at most two of its three heuristic flags is flipped
   relative to the value the heuristics computed, and the other flags keep
   their computed value. *)
C22_NoiseFlipsOneOrTwo ==
    \A r \in 1..Len(ds_rows) :
        ds_rows[r].noise # {} =>
            /\ Cardinality(Flipped(ds_rows[r])) \in 1..2
            /\ \A f \in FlagNames \ ds_rows[r].noise :
                  ds_rows[r][f] = ds_rows[r].computed[f]

(***************************************************************************)
(* generate_dataset.py: pick_ts_for_request, with the branch it took.      *)
(* start is minute 0 and end is minute span; a result names the branch     *)
(* that returned and the index of the wave rng.choice drew (0 when none    *)
(* was drawn).                                                             *)
(***************************************************************************)
\* end - start: a range shorter than an hour and one longer
SpanChoices == {SpanMinutes, MinutesPerHour + SpanMinutes}

\* timing.waves: a wave inside the range, one cut by its end, one that
\* starts an hour in, one of no duration, one that starts before the range
TsWaves ==
    {[start_offset_hours |-> 0, duration_minutes |-> 2],
     [start_offset_hours |-> 1, duration_minutes |-> 2],
     [start_offset_hours |-> 1, duration_minutes |-> SpanMinutes + 1],
     [start_offset_hours |-> 0, duration_minutes |-> 0],
     [start_offset_hours |-> -1, duration_minutes |-> 2]}

TsWaveLists == {<<>>} \cup {<<w>> : w \in TsWaves} \cup {<<w1, w2>> : w1, w2 \in TsWaves}

TsResult(ts, branch, wave) == [ts |-> ts, branch |-> branch, wave |-> wave]

\* start + timedelta(seconds=rng.randint(0, span_seconds - 1))
UniformIn(span) == 0..(Max2(1, span) - 1)

\* wave_start = start + timedelta(hours=offset_h)
WaveStart(wave) == wave.start_offset_hours * MinutesPerHour

\* a wave window that is not cut at the end of the range
WaveEndUncut(wave, span) == WaveStart(wave) + wave.duration_minutes

\* wave_end = min(end, wave_start + timedelta(minutes=dur_m))
WaveEnd(wave, span) == Min2(span, WaveStart(wave) + wave.duration_minutes)

\* the results of the branch taken when rng.random() < 0.80
WaveResults(plan, span) ==
    UNION {LET wave == plan.waves[i]
           IN  IF WaveEnd(wave, span) <= WaveStart(wave)
               THEN {TsResult(t, "degenerate", i) : t \in UniformIn(span)}
               ELSE {TsResult(WaveStart(wave) + d, "wave", i) :
                        d \in 0..(Max2(1, WaveEnd(wave, span) - WaveStart(wave)) - 1)}
           : i \in DOMAIN plan.waves}

\* what a call of pick_ts_for_request can return
TsResults(is_campaign, plan, span) ==
    IF ~is_campaign \/ ~plan.enabled \/ plan.waves = <<>>
    THEN {TsResult(t, "uniform", 0) : t \in UniformIn(span)}
    ELSE WaveResults(plan, span) \cup {TsResult(t, "rest", 0) : t \in UniformIn(span)}

PTOthers == <<cwVars, dmVars, dnVars, idVars, mnVars, rwVars, rpVars, paVars, btVars, dvVars, deVars, anVars, dsVars, acVars, cpVars>>

PTInit ==
    /\ CPIdle
    /\ ACIdle
    /\ CWIdle
    /\ DMIdle
    /\ DNIdle
    /\ IDIdle
    /\ MNIdle
    /\ RWIdle
    /\ RPIdle
    /\ PAIdle
    /\ BTIdle
    /\ DVIdle
    /\ DEIdle
    /\ ANIdle
    /\ DSIdle
    /\ pt_pc = "call"
    /\ pt_span \in SpanChoices
    /\ pt_is_campaign \in BOOLEAN
    /\ pt_plan \in [enabled : BOOLEAN, waves : TsWaveLists]
    /\ pt_res = [branch |-> "none"]

PTCall ==
    /\ pt_pc = "call"
    /\ pt_res' \in TsResults(pt_is_campaign, pt_plan, pt_span)
    /\ pt_pc' = "returned"
    /\ UNCHANGED <<pt_span, pt_is_campaign, pt_plan>>
    /\ UNCHANGED PTOthers

PTNext ==
    \/ PTCall

SpecPickTs == PTInit /\ [][PTNext]_vars

(* C23: pick_ts_for_request places a wave-selected campaign row at a
   timestamp t with wave_start <= t < min(end, wave_start + duration) for
   the chosen wave; when the chosen window collapses or inverts
   (min(end, wave_start + duration) <= wave_start), and for every baseline
   row, the timestamp is drawn from the whole dataset range. *)
C23_WaveWindowOrWholeRange ==
    pt_pc = "returned" =>
        LET chosen == pt_plan.waves[pt_res.wave]
            wave_start == chosen.start_offset_hours * MinutesPerHour
            window_end == Min2(pt_span, wave_start + chosen.duration_minutes)
        IN  /\ pt_res.wave # 0 =>
                 IF window_end <= wave_start
                 THEN pt_res.branch = "degenerate" /\ pt_res.ts \in 0..(pt_span - 1)
                 ELSE /\ pt_res.branch = "wave"
                      /\ wave_start <= pt_res.ts
                      /\ pt_res.ts < window_end
            /\ pt_res.wave = 0 => pt_res.ts \in 0..(pt_span - 1)
            /\ ~pt_is_campaign => pt_res.wave = 0

\* a campaign row placed in a wave that the end of the range cuts short
C23_Witness ==
    /\ pt_pc = "returned"
    /\ pt_is_campaign
    /\ pt_res.branch = "wave"
    /\ pt_res.ts = pt_span - 1
    /\ LET chosen == pt_plan.waves[pt_res.wave]
       IN  chosen.start_offset_hours * MinutesPerHour + chosen.duration_minutes > pt_span

(* C28: for start < end, every primary event row's timestamp t satisfies
   start <= t < end, for campaign and baseline rows alike and for every
   wave configuration (any start offset, including a negative one, and any
   duration). *)
C28_TimestampInRange ==
    pt_pc = "returned" => (0 <= pt_res.ts /\ pt_res.ts < pt_span)

(***************************************************************************)
(* generate_dataset.py: the created_at column of build_dimension_tables.   *)
(* Timestamps are minutes; t0 is generation.time_range_utc.start.          *)
(***************************************************************************)
HoursPerDay == 24

\* the largest value of rng.randint(0, 180) for the days of the backdating
BackdateDays == 180

\* the values of the three draws the model takes: both ends and one between
DayDraws == {0, 1, BackdateDays - 1, BackdateDays}

HourDraws == {0, 12, HoursPerDay - 1}

MinuteDraws == {0, 30, MinutesPerHour - 1}

StartChoices == {0, 1}

\* t0 - timedelta(days=..., hours=..., minutes=...)
CreatedAt(t0, days, hours, minutes) ==
    t0 - ((days * HoursPerDay + hours) * MinutesPerHour + minutes)

ACOthers == <<cwVars, dmVars, dnVars, idVars, mnVars, rwVars, rpVars, paVars, btVars, dvVars, deVars, anVars, dsVars, ptVars, cpVars>>

ACInit ==
    /\ CPIdle
    /\ CWIdle
    /\ DMIdle
    /\ DNIdle
    /\ IDIdle
    /\ MNIdle
    /\ RWIdle
    /\ RPIdle
    /\ PAIdle
    /\ BTIdle
    /\ DVIdle
    /\ DEIdle
    /\ ANIdle
    /\ DSIdle
    /\ PTIdle
    /\ ac_pc = "accounts"
    /\ ac_t0 \in StartChoices
    /\ ac_created_at = <<>>

\* one iteration of the inner loop over the allocations
ACAppendAccount ==
    /\ ac_pc = "accounts"
    /\ Len(ac_created_at) < MaxCreated
    /\ \E days \in DayDraws, hours \in HourDraws, minutes \in MinuteDraws :
         ac_created_at' = Append(ac_created_at, CreatedAt(ac_t0, days, hours, minutes))
    /\ UNCHANGED <<ac_pc, ac_t0>>
    /\ UNCHANGED ACOthers

\* accounts = pa.table({...})
ACBuildTable ==
    /\ ac_pc = "accounts"
    /\ ac_pc' = "done"
    /\ UNCHANGED <<ac_t0, ac_created_at>>
    /\ UNCHANGED ACOthers

ACNext ==
    \/ ACAppendAccount
    \/ ACBuildTable

SpecAccountAge == ACInit /\ [][ACNext]_vars

(* C27: every account's creation timestamp lies within the 180 days before
   the dataset start: start - 180 days <= created_at <= start. *)
C27_CreatedWithin180Days ==
    \A i \in 1..Len(ac_created_at) :
        /\ ac_t0 - 180 * 24 * 60 <= ac_created_at[i]
        /\ ac_created_at[i] <= ac_t0

(***************************************************************************)
(* generate_dataset.py followed by generate_identity_events.py on the      *)
(* directory it wrote.  cp_files maps the name of every file written to    *)
(* the set of its columns.                                                 *)
(***************************************************************************)
\* the columns of the accounts table of build_dimension_tables
accounts_columns == {"account_id", "org_id", "is_paid", "created_at"}

\* sess_schema
sess_schema == {"session_id", "account_id", "org_id", "start_ts", "auth_strength"}

auth_strengths == {"low", "medium", "strong"}

\* the columns generate_identity_events.py requires of its inputs
required_accounts == {"account_id", "org_id"}

required_sessions == {"account_id", "org_id", "ip", "asn", "device_fingerprint", "start_ts"}

\* the files written so far with one more
WithFile(files, name, columns) ==
    [f \in DOMAIN files \cup {name} |-> IF f = name THEN columns ELSE files[f]]

CPOthers == <<cwVars, dmVars, dnVars, idVars, mnVars, rwVars, rpVars, paVars, btVars, dvVars, deVars, anVars, dsVars, ptVars, acVars>>

CPInit ==
    /\ CWIdle
    /\ DMIdle
    /\ DNIdle
    /\ IDIdle
    /\ MNIdle
    /\ RWIdle
    /\ RPIdle
    /\ PAIdle
    /\ BTIdle
    /\ DVIdle
    /\ DEIdle
    /\ ANIdle
    /\ DSIdle
    /\ PTIdle
    /\ ACIdle
    /\ cp_pc = "dimensions"
    /\ cp_sess_enabled \in BOOLEAN
    /\ cp_n_accounts \in 0..MaxSessAccounts
    /\ cp_acct = 0
    /\ cp_sess_rows = <<>>
    /\ cp_files = <<>>
    /\ cp_missing = {}

\* main of generate_dataset.py writes every dimension table
CPWriteDimensions ==
    /\ cp_pc = "dimensions"
    /\ cp_files' = WithFile(WithFile(cp_files, "accounts.parquet", accounts_columns),
                            "enrichment_ip.parquet",
                            {"ip", "asn", "asn_type", "provider_category",
                             "provider_brand_bucket"})
    /\ cp_pc' = IF cp_sess_enabled THEN "sessions" ELSE "primary done"
    /\ cp_acct' = 1
    /\ UNCHANGED <<cp_sess_enabled, cp_n_accounts, cp_sess_rows, cp_missing>>
    /\ UNCHANGED CPOthers

\* one account of the sessions loop that gets a session
CPSessionRow ==
    /\ cp_pc = "sessions"
    /\ cp_acct <= cp_n_accounts
    /\ \E org \in RowOrgIds, auth \in auth_strengths :
         cp_sess_rows' = Append(cp_sess_rows,
                                [account_id |-> cp_acct, org_id |-> org, auth_strength |-> auth])
    /\ cp_acct' = cp_acct + 1
    /\ UNCHANGED <<cp_pc, cp_sess_enabled, cp_n_accounts, cp_files, cp_missing>>
    /\ UNCHANGED CPOthers

\* one account of the sessions loop that gets none
CPNoSessionRow ==
    /\ cp_pc = "sessions"
    /\ cp_acct <= cp_n_accounts
    /\ cp_acct' = cp_acct + 1
    /\ UNCHANGED <<cp_pc, cp_sess_enabled, cp_n_accounts, cp_sess_rows, cp_files, cp_missing>>
    /\ UNCHANGED CPOthers

\* write_parquet(sess_path, pa.Table.from_pylist(sess_rows).cast(sess_schema));
\* a list of no rows gives a table of no columns, which the cast may reject
CPWriteSessions ==
    /\ cp_pc = "sessions"
    /\ cp_acct > cp_n_accounts
    /\ \/ /\ cp_files' = WithFile(cp_files, "sessions.parquet", sess_schema)
          /\ cp_pc' = "primary done"
       \/ /\ cp_sess_rows = <<>>
          /\ cp_files' = cp_files
          /\ cp_pc' = "ArrowError"
    /\ UNCHANGED <<cp_sess_enabled, cp_n_accounts, cp_acct, cp_sess_rows, cp_missing>>
    /\ UNCHANGED CPOthers

\* main of generate_identity_events.py: the three inputs must exist
CPIdentityInputs ==
    /\ cp_pc = "primary done"
    /\ cp_pc' = IF {"accounts.parquet", "sessions.parquet", "enrichment_ip.parquet"}
                      \subseteq DOMAIN cp_files
                THEN "read" ELSE "FileNotFoundError"
    /\ UNCHANGED <<cp_sess_enabled, cp_n_accounts, cp_acct, cp_sess_rows, cp_files, cp_missing>>
    /\ UNCHANGED CPOthers

\* the sanity check of the columns read
CPIdentityColumns ==
    /\ cp_pc = "read"
    /\ LET missing_a == required_accounts \ cp_files["accounts.parquet"]
           missing_s == required_sessions \ cp_files["sessions.parquet"]
       IN  IF missing_a # {}
           THEN cp_pc' = "ValueError: accounts missing columns" /\ cp_missing' = missing_a
           ELSE IF missing_s # {}
           THEN cp_pc' = "ValueError: sessions missing columns" /\ cp_missing' = missing_s
           ELSE cp_pc' = "generate" /\ cp_missing' = {}
    /\ UNCHANGED <<cp_sess_enabled, cp_n_accounts, cp_acct, cp_sess_rows, cp_files>>
    /\ UNCHANGED CPOthers

CPNext ==
    \/ CPWriteDimensions
    \/ CPSessionRow
    \/ CPNoSessionRow
    \/ CPWriteSessions
    \/ CPIdentityInputs
    \/ CPIdentityColumns

SpecCompose == CPInit /\ [][CPNext]_vars

(* C30: the two pipeline stages compose: every column the identity
   generator requires of the sessions table (account_id, org_id, ip, asn,
   device_fingerprint, start_ts) is present in the sessions table the
   primary generator writes, so running the identity generator on the
   primary generator's output never stops with the missing-columns error. *)
C30_StagesCompose ==
    /\ "sessions.parquet" \in DOMAIN cp_files =>
           required_sessions \subseteq cp_files["sessions.parquet"]
    /\ cp_pc # "ValueError: sessions missing columns"

====
